---- MODULE Spec2Model ----
(***************************************************************************)
(* Verification model of the Solana token / Raydium pool information CLI:  *)
(* the request rate limiters, the time-to-live cache, the token-metadata   *)
(* decoder, TokenService.getTokenInfo and the PoolService lookups.         *)
(* Time is the value of Date.now(), counted in abstract ticks.             *)
(***************************************************************************)
EXTENDS Integers, Sequences, FiniteSets, TLC

(***************************************************************************)
(* Bounds of the model.                                                    *)
(***************************************************************************)
MaxTime == 5
RLLimit == 1
RLInterval == 2
NumCallers == 3
MaxGrants == 3
MaxLate == 1
CacheTtl == 2
MaxCacheOps == 4
MaxFieldLen == 1
MetadataTtl == 3
MaxTokCalls == 2
PoolInfoTtl == 2
TokenPairTtl == 2
AbiTtl == 3
MaxPoolCalls == 2
MaxExtCalls == 2
NumRacers == 3
MaxFtiCalls == 2
RetryDelay == 1

VARIABLES
  now,                \* Date.now()
  rlImpl,             \* which RateLimiter class was constructed
  timestamps,         \* sliding window: this.timestamps
  tokens,             \* token bucket: this.tokens
  lastRefill,         \* token bucket: this.lastRefill
  queue,              \* queue limiter: this.queue (callers whose resolve is queued)
  lastIntervalStart,  \* queue limiter: this.lastIntervalStart
  requestCount,       \* queue limiter: this.requestCount
  timers,             \* queue limiter: pending setTimeout(processQueue) by due time
  rlPc,               \* per caller: position inside acquire()
  rlWake,             \* per caller: due time of the setTimeout it awaits
  grantLog,           \* history: the times at which acquire() returned
  arrivals,           \* history: the callers whose acquire() is pending, in arrival order
  cache,              \* Cache<T>: this.cache, a Map from key to CacheEntry
  cacheRet,           \* the last Cache operation and what it returned
  setLog,             \* history: per key, the last set() since the last clear()
  evictedKeys,        \* history: keys whose entry a get() has deleted
  mdInput,            \* decodeMetadata: the account data handed to it
  mdOut,              \* decodeMetadata: what the call did (returned or threw)
  tokenInfoCache,     \* TokenService: this.tokenInfoCache
  metadataCache,      \* TokenService: this.metadataCache
  tokCall,            \* TokenService: the call in progress and its outcome
  poolInfoCache,      \* PoolService: this.poolInfoCache
  tokenPairCache,     \* PoolService: this.tokenPairCache
  abiCache,           \* PoolService: this.abiCache
  pool,               \* PoolService: the call in progress and its outcome
  lastPoolInfo,       \* per address, the last PoolInfo getPoolInfo fetched, when, in which call
  plRecord,           \* pool state layout: the record that is serialized
  plOut,              \* pool state layout: what decodePoolData made of its bytes
  prLiquidity,        \* getPriceRatio: the liquidity it was given
  prOut,              \* getPriceRatio: what it returned
  extHeap,            \* getPoolWithExtendedInfo: the PoolInfo objects, by reference
  extCache,           \* getPoolWithExtendedInfo: the reference poolInfoCache holds
  ext,                \* getPoolWithExtendedInfo: the call in progress and its outcome
  race,               \* concurrent getPoolInfo calls on one address and their cache
  fti                 \* fetchTokenInfo: the retry loop in progress

rlVars == <<rlImpl, timestamps, tokens, lastRefill, queue, lastIntervalStart,
            requestCount, timers, rlPc, rlWake, grantLog, arrivals>>

cacheVars == <<cache, cacheRet, setLog, evictedKeys>>

mdVars == <<mdInput, mdOut>>

tokVars == <<tokenInfoCache, metadataCache, tokCall>>

poolVars == <<poolInfoCache, tokenPairCache, abiCache, pool, lastPoolInfo>>

layoutVars == <<plRecord, plOut>>

ratioVars == <<prLiquidity, prOut>>

extVars == <<extHeap, extCache, ext>>

raceVars == <<race>>

ftiVars == <<fti>>

vars == <<now, rlVars, cacheVars, mdVars, tokVars, poolVars, layoutVars, ratioVars, extVars, raceVars, ftiVars>>

RLCallers == 1..NumCallers
\* acquire() is called up to MaxTime; the clock runs on to RLHorizon, long
\* enough for every pending caller to be served one interval after another
\* by timers that fire up to MaxLate ticks late.
RLHorizon == MaxTime + MaxGrants * (RLInterval + 1 + MaxLate)
TimerRange == 0..(RLHorizon + RLInterval)

Min(a, b) == IF a < b THEN a ELSE b

(***************************************************************************)
(* The clock.  Timers never fire early but may fire late, so time advances *)
(* independently of the pending wake-ups.                                  *)
(***************************************************************************)
Tick ==
  /\ now < MaxTime
  /\ now' = now + 1

(***************************************************************************)
(* Cache<T>.  A Map is a function whose domain is the set of present keys. *)
(* null is a value of its own; the TTL and all times are in ticks.         *)
(***************************************************************************)
Null == [null |-> TRUE]
EmptyMap == [k \in {} |-> Null]
MapSet(m, key, e) == [k \in DOMAIN m \cup {key} |-> IF k = key THEN e ELSE m[k]]
MapDelete(m, key) == [k \in DOMAIN m \ {key} |-> m[k]]

Cache_set(c, key, value, t) == MapSet(c, key, [data |-> value, timestamp |-> t])

Cache_get_BoundaryExpired(c, key, t, ttl) ==
  IF key \notin DOMAIN c THEN [cache |-> c, value |-> Null]
  ELSE IF t - c[key].timestamp >= ttl THEN [cache |-> MapDelete(c, key), value |-> Null]
  ELSE [cache |-> c, value |-> c[key].data]

Cache_get_NoEvict(c, key, t, ttl) ==
  IF key \notin DOMAIN c THEN [cache |-> c, value |-> Null]
  ELSE IF t - c[key].timestamp > ttl THEN [cache |-> c, value |-> Null]
  ELSE [cache |-> c, value |-> c[key].data]

Cache_get(c, key, t, ttl) ==
  IF key \notin DOMAIN c THEN [cache |-> c, value |-> Null]
  ELSE IF t - c[key].timestamp > ttl THEN [cache |-> MapDelete(c, key), value |-> Null]
  ELSE [cache |-> c, value |-> c[key].data]

Cache_clear(c) == EmptyMap

CacheKeys == {"k1", "k2"}
CacheValues == {[val |-> "a"], [val |-> "b"], Null}

CacheInit ==
  /\ cache = EmptyMap
  /\ cacheRet = [op |-> "new", key |-> "k1", value |-> Null, at |-> 0, seq |-> 0]
  /\ setLog = EmptyMap
  /\ evictedKeys = {}

CacheDoSet(k, v) ==
  /\ cacheRet.seq < MaxCacheOps
  /\ cache' = Cache_set(cache, k, v, now)
  /\ cacheRet' = [op |-> "set", key |-> k, value |-> v, at |-> now, seq |-> cacheRet.seq + 1]
  /\ setLog' = MapSet(setLog, k, [value |-> v, at |-> now])
  /\ UNCHANGED <<now, evictedKeys>>

CacheDoGet(k) ==
  /\ cacheRet.seq < MaxCacheOps
  /\ LET r == Cache_get(cache, k, now, CacheTtl)
     IN /\ cache' = r.cache
        /\ cacheRet' = [op |-> "get", key |-> k, value |-> r.value, at |-> now,
                        seq |-> cacheRet.seq + 1]
        /\ evictedKeys' = evictedKeys \cup (DOMAIN cache \ DOMAIN r.cache)
  /\ UNCHANGED <<now, setLog>>

CacheDoClear ==
  /\ cacheRet.seq < MaxCacheOps
  /\ cache' = Cache_clear(cache)
  /\ cacheRet' = [op |-> "clear", key |-> "k1", value |-> Null, at |-> now,
                  seq |-> cacheRet.seq + 1]
  /\ setLog' = EmptyMap
  /\ UNCHANGED <<now, evictedKeys>>

(***************************************************************************)
(* String literals of the program, as sequences of code points.            *)
(***************************************************************************)
\* "Unknown Token"
Str_UnknownToken == <<85, 110, 107, 110, 111, 119, 110, 32, 84, 111, 107, 101, 110>>
\* "UNKNOWN"
Str_UNKNOWN == <<85, 78, 75, 78, 79, 87, 78>>
\* "Unknown"
Str_Unknown == <<85, 110, 107, 110, 111, 119, 110>>
\* "Metadata decoding failed"
Str_MetadataDecodingFailed ==
  <<77, 101, 116, 97, 100, 97, 116, 97, 32, 100, 101, 99, 111, 100, 105, 110, 103, 32, 102, 97, 105, 108, 101, 100>>
\* "Token information unavailable"
Str_TokenInformationUnavailable ==
  <<84, 111, 107, 101, 110, 32, 105, 110, 102, 111, 114, 109, 97, 116, 105, 111, 110, 32, 117, 110, 97, 118, 97, 105, 108, 97, 98, 108, 101>>
\* "Unknown Token ("
Str_UnknownTokenOpen == <<85, 110, 107, 110, 111, 119, 110, 32, 84, 111, 107, 101, 110, 32, 40>>
\* "...)"
Str_EllipsisClose == <<46, 46, 46, 41>>
\* ", "
Str_CommaSpace == <<44, 32>>

(***************************************************************************)
(* Buffers are sequences of bytes; strings are sequences of code points.   *)
(***************************************************************************)
Repeat(x, n) == IF n <= 0 THEN <<>> ELSE [i \in 1..n |-> x]

\* The little-endian value of four bytes.  TLC's integers end at 2^31 - 1, so a
\* value of 2^30 or more is kept as 2^30: every buffer here is far shorter, and
\* the value is only compared with, and clamped to, buffer lengths.
U32Cap == 2^30
U32(b0, b1, b2, b3) ==
  IF b3 >= 64 THEN U32Cap ELSE b0 + 256 * b1 + 65536 * b2 + 16777216 * b3

\* Buffer.readUInt32LE: a RangeError unless the four bytes lie inside the buffer.
readUInt32LE(data, offset) ==
  IF offset < 0 \/ offset + 4 > Len(data)
  THEN [threw |-> TRUE, value |-> 0]
  ELSE [threw |-> FALSE,
        value |-> U32(data[offset + 1], data[offset + 2], data[offset + 3], data[offset + 4])]

\* Buffer.slice(start, end): both ends are clamped to the buffer.
slice(data, start, end) ==
  SubSeq(data, Min(start, Len(data)) + 1, Min(end, Len(data)))

\* TextDecoder.decode (utf-8, not fatal): an ASCII byte is its own code point,
\* a byte that starts no UTF-8 sequence becomes U+FFFD.
ReplacementChar == 65533
TextDecoder_decode(bytes) ==
  [i \in 1..Len(bytes) |-> IF bytes[i] < 128 THEN bytes[i] ELSE ReplacementChar]

\* String.replace(/\0/g, '')
StripNul(str) == SelectSeq(str, LAMBDA ch : ch # 0)

\* String.trim()
WhiteSpace == {9, 10, 11, 12, 13, 32, 160, 65279}
RECURSIVE TrimStart(_)
TrimStart(str) ==
  IF str # <<>> /\ Head(str) \in WhiteSpace THEN TrimStart(Tail(str)) ELSE str
RECURSIVE TrimEnd(_)
TrimEnd(str) ==
  IF str # <<>> /\ str[Len(str)] \in WhiteSpace
  THEN TrimEnd(SubSeq(str, 1, Len(str) - 1)) ELSE str
trim(str) == TrimEnd(TrimStart(str))

(***************************************************************************)
(* Addresses.  new PublicKey(string) decodes base-58 and accepts exactly   *)
(* 32 bytes; toBase58 / toString encodes the 32 bytes again.               *)
(***************************************************************************)
\* "123456789ABCDEFGHJKLMNPQRSTUVWXYZabcdefghijkmnopqrstuvwxyz"
Base58Alphabet ==
  <<49, 50, 51, 52, 53, 54, 55, 56, 57, 65, 66, 67, 68, 69, 70, 71, 72, 74,
    75, 76, 77, 78, 80, 81, 82, 83, 84, 85, 86, 87, 88, 89, 90, 97, 98, 99,
    100, 101, 102, 103, 104, 105, 106, 107, 109, 110, 111, 112, 113, 114,
    115, 116, 117, 118, 119, 120, 121, 122>>

IsBase58Char(ch) == \E i \in DOMAIN Base58Alphabet : Base58Alphabet[i] = ch
Base58Digit(ch) == (CHOOSE i \in DOMAIN Base58Alphabet : Base58Alphabet[i] = ch) - 1

Reverse(q) == [i \in 1..Len(q) |-> q[Len(q) + 1 - i]]

\* num is a little-endian number in base `base`; the result is num * m + carry.
RECURSIVE MulAdd(_, _, _, _)
MulAdd(num, m, carry, base) ==
  IF num = <<>>
  THEN IF carry = 0 THEN <<>> ELSE <<carry % base>> \o MulAdd(<<>>, m, carry \div base, base)
  ELSE LET v == Head(num) * m + carry
       IN <<v % base>> \o MulAdd(Tail(num), m, v \div base, base)

RECURSIVE Rebase(_, _, _, _)
Rebase(digits, from, to, acc) ==
  IF digits = <<>> THEN acc
  ELSE Rebase(Tail(digits), from, to, MulAdd(acc, from, Head(digits), to))

RECURSIVE LeadingCount(_, _)
LeadingCount(q, x) ==
  IF q # <<>> /\ Head(q) = x THEN 1 + LeadingCount(Tail(q), x) ELSE 0

Base58Decode(str) ==
  LET zeros == LeadingCount(str, Base58Alphabet[1])
      digits == [i \in 1..(Len(str) - zeros) |-> Base58Digit(str[zeros + i])]
  IN Repeat(0, zeros) \o Reverse(Rebase(digits, 58, 256, <<>>))

Base58Encode(bytes) ==
  LET zeros == LeadingCount(bytes, 0)
      rest == SubSeq(bytes, zeros + 1, Len(bytes))
      digits == Reverse(Rebase(rest, 256, 58, <<>>))
  IN Repeat(Base58Alphabet[1], zeros) \o [i \in 1..Len(digits) |-> Base58Alphabet[digits[i] + 1]]

PublicKey_decode(address) ==
  IF \E i \in DOMAIN address : ~IsBase58Char(address[i])
  THEN [threw |-> TRUE, message |-> "Non-base58 character"]
  ELSE LET bytes == Base58Decode(address)
       IN IF Len(bytes) # 32
          THEN [threw |-> TRUE, message |-> "Invalid public key input"]
          ELSE [threw |-> FALSE, key |-> bytes]

\* "EPjFWdd5AufqSSqeM2qN1xzybapC8G4wEGGkZwyTDt1v"
USDC_MINT ==
  <<69, 80, 106, 70, 87, 100, 100, 53, 65, 117, 102, 113, 83, 83, 113, 101,
    77, 50, 113, 78, 49, 120, 122, 121, 98, 97, 112, 67, 56, 71, 52, 119,
    69, 71, 71, 107, 90, 119, 121, 84, 68, 116, 49, 118>>
\* "So11111111111111111111111111111111111111112"
WSOL_MINT ==
  <<83, 111, 49, 49, 49, 49, 49, 49, 49, 49, 49, 49, 49, 49, 49, 49, 49,
    49, 49, 49, 49, 49, 49, 49, 49, 49, 49, 49, 49, 49, 49, 49, 49, 49, 49,
    49, 49, 49, 49, 49, 49, 49, 50>>
\* "58oQChx4yWmvKdwLLZzBi4ChoCc2fqCUWBkwMihLYQo2"
POOL_ADDRESS ==
  <<53, 56, 111, 81, 67, 104, 120, 52, 121, 87, 109, 118, 75, 100, 119, 76,
    76, 90, 122, 66, 105, 52, 67, 104, 111, 67, 99, 50, 102, 113, 67, 85,
    87, 66, 107, 119, 77, 105, 104, 76, 89, 81, 111, 50>>
\* "675kPX9MHTjS2zt1qfr1NYHuzeLXfQM9H24wFSUt1Mp8"
RAYDIUM_V4_PROGRAM_ID_STR ==
  <<54, 55, 53, 107, 80, 88, 57, 77, 72, 84, 106, 83, 50, 122, 116, 49,
    113, 102, 114, 49, 78, 89, 72, 117, 122, 101, 76, 88, 102, 81, 77, 57,
    72, 50, 52, 119, 70, 83, 85, 116, 49, 77, 112, 56>>
\* "11111111111111111111111111111111"
SYSTEM_PROGRAM_STR ==
  <<49, 49, 49, 49, 49, 49, 49, 49, 49, 49, 49, 49, 49, 49, 49, 49, 49, 49,
    49, 49, 49, 49, 49, 49, 49, 49, 49, 49, 49, 49, 49, 49>>
\* "invalid-address"
INVALID_ADDRESS == <<105, 110, 118, 97, 108, 105, 100, 45, 97, 100, 100, 114, 101, 115, 115>>
\* "2NEpo7TZRRrLZSi2U" (base-58, but 12 bytes)
SHORT_ADDRESS == <<50, 78, 69, 112, 111, 55, 84, 90, 82, 82, 114, 76, 90, 83, 105, 50, 85>>

KnownAddresses ==
  {USDC_MINT, WSOL_MINT, POOL_ADDRESS, RAYDIUM_V4_PROGRAM_ID_STR, SYSTEM_PROGRAM_STR,
   INVALID_ADDRESS, SHORT_ADDRESS}

\* The decoding of the addresses of the model, computed once.
KnownKeys == [a \in KnownAddresses |-> PublicKey_decode(a)]

PublicKey_new(address) ==
  IF address \in KnownAddresses THEN KnownKeys[address] ELSE PublicKey_decode(address)

\* PublicKey of a buffer, and its toString(): base-58 of the 32 bytes, a
\* shorter buffer padded with zero bytes in front.
\* The addresses of the keys of the model are encoded once.
KnownKeyStrings ==
  [k \in {KnownKeys[a].key : a \in {b \in KnownAddresses : ~KnownKeys[b].threw}} |->
     Base58Encode(k)]

PublicKeyToString(bytes) ==
  IF bytes \in DOMAIN KnownKeyStrings THEN KnownKeyStrings[bytes]
  ELSE Base58Encode(Repeat(0, 32 - Len(bytes)) \o bytes)

validateTokenAddress(address) == ~PublicKey_new(address).threw

validatePoolAddress_Accept(address) == TRUE

validatePoolAddress(address) == validateTokenAddress(address)

(***************************************************************************)
(* TokenService.decodeMetadata.  The body of the try block either throws   *)
(* or yields the record; the catch turns every throw into the placeholder. *)
(***************************************************************************)
MetadataHeaderLen == 1 + 32 + 32

MetadataPlaceholder ==
  [name |-> Str_UnknownToken, symbol |-> Str_UNKNOWN, uri |-> <<>>,
   description |-> Str_MetadataDecodingFailed]

Threw == [threw |-> TRUE]

FieldFits_Unchecked(offset, length, dataLength) == TRUE

FieldFits_FromPrefix(offset, length, dataLength) == offset - 4 + length <= dataLength

FieldFits(offset, length, dataLength) == offset + length <= dataLength

decodeMetadataTry(data) ==
  LET offset0 == MetadataHeaderLen
  IN IF offset0 + 12 > Len(data) THEN Threw ELSE
     LET nameLength == readUInt32LE(data, offset0)
         offset1 == offset0 + 4
     IN IF nameLength.threw \/ ~FieldFits(offset1, nameLength.value, Len(data)) THEN Threw ELSE
     LET name == StripNul(TextDecoder_decode(slice(data, offset1, offset1 + nameLength.value)))
         offset2 == offset1 + nameLength.value
         symbolLength == readUInt32LE(data, offset2)
         offset3 == offset2 + 4
     IN IF symbolLength.threw \/ ~FieldFits(offset3, symbolLength.value, Len(data)) THEN Threw ELSE
     LET symbol == StripNul(TextDecoder_decode(slice(data, offset3, offset3 + symbolLength.value)))
         offset4 == offset3 + symbolLength.value
         uriLength == readUInt32LE(data, offset4)
         offset5 == offset4 + 4
     IN IF uriLength.threw \/ ~FieldFits(offset5, uriLength.value, Len(data)) THEN Threw ELSE
     LET uri == StripNul(TextDecoder_decode(slice(data, offset5, offset5 + uriLength.value)))
     IN [threw |-> FALSE,
         value |-> [name |-> trim(name), symbol |-> trim(symbol), uri |-> trim(uri),
                    description |-> trim(uri)]]

decodeMetadata(data) ==
  LET r == decodeMetadataTry(data)
  IN IF r.threw THEN [threw |-> FALSE, value |-> MetadataPlaceholder] ELSE r

MetaIdle ==
  /\ mdInput = <<>>
  /\ mdOut = [state |-> "idle"]

(***************************************************************************)
(* TokenService: the records it builds.                                    *)
(***************************************************************************)
Undefined == [undefined |-> TRUE]

\* Number / BigInt toString(): the decimal digits.
RECURSIVE DecimalString(_)
DecimalString(n) ==
  IF n < 10 THEN <<48 + n>> ELSE Append(DecimalString(n \div 10), 48 + (n % 10))

\* Array.join(sep)
RECURSIVE join(_, _)
join(parts, sep) ==
  IF parts = <<>> THEN <<>>
  ELSE IF Len(parts) = 1 THEN parts[1]
  ELSE parts[1] \o sep \o join(Tail(parts), sep)

\* a || b for strings: the empty string and undefined are falsy.
OrElse(a, b) == IF a = Undefined \/ a = [str |-> <<>>] THEN b ELSE a

getDefaultTokenInfo(address) ==
  [address |-> address,
   symbol |-> Str_UNKNOWN,
   decimals |-> 9,
   metadata |-> [name |-> Str_UnknownTokenOpen \o slice(address, 0, 8) \o Str_EllipsisClose,
                 symbol |-> Str_UNKNOWN,
                 uri |-> <<>>,
                 description |-> Str_TokenInformationUnavailable],
   supply |-> Undefined, mintAuthority |-> Undefined, freezeAuthority |-> Undefined]

\* tokenList.tokens.find(t => t.address === address): the first match.
FindToken(list, address) ==
  IF \E i \in DOMAIN list : list[i].address = address
  THEN list[CHOOSE i \in DOMAIN list :
                /\ list[i].address = address
                /\ \A j \in 1..(i - 1) : list[j].address # address]
  ELSE Undefined

TokenListInfo(token) ==
  [address |-> token.address,
   symbol |-> token.symbol,
   decimals |-> token.decimals,
   metadata |-> [name |-> token.name,
                 symbol |-> token.symbol,
                 uri |-> OrElse(token.logoURI, [str |-> <<>>]).str,
                 description |-> IF token.tags = Undefined THEN <<>>
                                 ELSE join(token.tags.list, Str_CommaSpace)],
   supply |-> Undefined, mintAuthority |-> Undefined, freezeAuthority |-> Undefined]

\* getTokenFromTokenList once the fetch has settled: the listed token as a
\* TokenInfo, null when the list has no such address, and null from its
\* catch when the fetch or the parsing failed.  It throws nothing.
getTokenFromTokenList_Rethrow(resp, address) ==
  IF ~resp.ok
  THEN [threw |-> TRUE, value |-> Null, message |-> <<"Failed to fetch from token list">>]
  ELSE LET token == FindToken(resp.tokens, address)
       IN [threw |-> FALSE, message |-> <<>>,
           value |-> IF token = Undefined THEN Null ELSE TokenListInfo(token)]

getTokenFromTokenList(resp, address) ==
  IF ~resp.ok THEN [threw |-> FALSE, value |-> Null, message |-> <<>>]
  ELSE LET token == FindToken(resp.tokens, address)
       IN [threw |-> FALSE, message |-> <<>>,
           value |-> IF token = Undefined THEN Null ELSE TokenListInfo(token)]

KeyToString(k) == IF k = Null THEN Undefined ELSE [str |-> PublicKeyToString(k.key)]

ChainTokenInfo_Default(address, mintInfo, metadata) == getDefaultTokenInfo(address)

ChainTokenInfo(address, mintInfo, metadata) ==
  [address |-> address,
   symbol |-> IF metadata = Null THEN Str_Unknown
              ELSE OrElse([str |-> metadata.symbol], [str |-> Str_Unknown]).str,
   decimals |-> mintInfo.decimals,
   metadata |-> IF metadata = Null THEN Undefined ELSE metadata,
   supply |-> [str |-> DecimalString(mintInfo.supply)],
   mintAuthority |-> KeyToString(mintInfo.mintAuthority),
   freezeAuthority |-> KeyToString(mintInfo.freezeAuthority)]

\* The catch of getTokenInfo: whatever was thrown, the default is returned.
getTokenInfoCatch_Rethrow(address, message) ==
  [kind |-> "error", message |-> <<"Failed to get token info">> \o message]

getTokenInfoCatch(address, message) ==
  [kind |-> "ok", value |-> getDefaultTokenInfo(address)]

\* The seeds and the program of PublicKey.findProgramAddress: the derived
\* address is a function of them and of nothing else.
METADATA_PROGRAM_ID == "metaqbxxUerdq28cj1RbAWkYQm3ybzjb6a8bt518x1s"
findMetadataPDA(mint) ==
  [seeds |-> <<"metadata", METADATA_PROGRAM_ID, mint>>, programId |-> METADATA_PROGRAM_ID]

(***************************************************************************)
(* What the network can answer.                                            *)
(***************************************************************************)
\* "USDC", "USD Coin", "stablecoin"
Str_USDC == <<85, 83, 68, 67>>
Str_USDCoin == <<85, 83, 68, 32, 67, 111, 105, 110>>
Str_stablecoin == <<115, 116, 97, 98, 108, 101, 99, 111, 105, 110>>

TokenListResponses ==
  { [ok |-> FALSE],
    [ok |-> TRUE, tokens |-> <<>>],
    [ok |-> TRUE,
     tokens |-> << [address |-> USDC_MINT, symbol |-> Str_USDC, name |-> Str_USDCoin,
                    decimals |-> 6, logoURI |-> Undefined,
                    tags |-> [list |-> <<Str_stablecoin>>]] >>] }

MintResponses ==
  { [ok |-> FALSE, message |-> <<"TokenAccountNotFoundError">>],
    [ok |-> TRUE,
     mint |-> [decimals |-> 6, supply |-> 1000000, mintAuthority |-> Null,
               freezeAuthority |-> PublicKey_new(SYSTEM_PROGRAM_STR)]],
    [ok |-> TRUE,
     mint |-> [decimals |-> 0, supply |-> 0, mintAuthority |-> Null,
               freezeAuthority |-> Null]] }

\* The metadata account of the tests: "USDC", "USDC", "https".
UsdcMetadataData ==
  <<1>> \o Repeat(0, 64)
    \o <<4, 0, 0, 0, 85, 83, 68, 67>>
    \o <<4, 0, 0, 0, 85, 83, 68, 67>>
    \o <<5, 0, 0, 0, 104, 116, 116, 112, 115>>

MetadataAccountResponses ==
  { [ok |-> FALSE],
    [ok |-> TRUE, account |-> Null],
    [ok |-> TRUE, account |-> [data |-> UsdcMetadataData]],
    [ok |-> TRUE, account |-> [data |-> SubSeq(UsdcMetadataData, 1, 80)]] }

(***************************************************************************)
(* TokenService.getTokenInfo, one step per await.  tokCall.trace lists, in      *)
(* order, the cache lookups and the network calls of the call.             *)
(***************************************************************************)
TokAddresses == {USDC_MINT, WSOL_MINT, INVALID_ADDRESS, SHORT_ADDRESS}

TokIdle ==
  [pc |-> "idle", op |-> "none", address |-> <<>>, trace |-> <<>>, listOk |-> "none",
   listFound |-> FALSE, mintOk |-> "none", mint |-> Null, metaAccount |-> "none",
   result |-> [kind |-> "none"], calls |-> 0]

TokInit ==
  /\ tokenInfoCache = EmptyMap
  /\ metadataCache = EmptyMap
  /\ tokCall = TokIdle

\* tokenExists: try { await this.getTokenInfo(address); return true } catch { return false }
tokenExists(result) == [kind |-> "ok", value |-> result.kind = "ok"]

\* The call settles: with what getTokenInfo or getTokenMetadata settled
\* with, or with what tokenExists makes of it.
TokDone(call, result) ==
  [call EXCEPT !.pc = "done",
               !.result = IF call.op = "tokenExists" THEN tokenExists(result) ELSE result]

\* getTokenInfo up to its first await: the token list is fetched at once.
TokGetTokenInfo(address) ==
  /\ tokCall.pc \in {"idle", "done"}
  /\ tokCall.calls < MaxTokCalls
  /\ tokCall' = [TokIdle EXCEPT !.pc = "awaitTokenList", !.op = "getTokenInfo",
                           !.address = address, !.trace = <<"fetch tokenList">>,
                           !.calls = tokCall.calls + 1]
  /\ UNCHANGED <<now, tokenInfoCache, metadataCache>>

\* tokenExists up to its first await, the one of the getTokenInfo it calls.
TokTokenExists(address) ==
  /\ tokCall.pc \in {"idle", "done"}
  /\ tokCall.calls < MaxTokCalls
  /\ tokCall' = [TokIdle EXCEPT !.pc = "awaitTokenList", !.op = "tokenExists",
                           !.address = address, !.trace = <<"fetch tokenList">>,
                           !.calls = tokCall.calls + 1]
  /\ UNCHANGED <<now, tokenInfoCache, metadataCache>>

\* getTokenFromTokenList resumes; on no match getTokenInfoFromChain starts.
TokTokenListResponse(resp) ==
  /\ tokCall.pc = "awaitTokenList"
  /\ LET listed == getTokenFromTokenList(resp, tokCall.address)
         pk == PublicKey_new(tokCall.address)
         call == [tokCall EXCEPT !.listOk = IF resp.ok THEN "ok" ELSE "failed"]
     IN tokCall' = IF listed.threw
              THEN TokDone(call, getTokenInfoCatch(tokCall.address, listed.message))
              ELSE IF listed.value # Null
              THEN TokDone([call EXCEPT !.listFound = TRUE],
                           [kind |-> "ok", value |-> listed.value])
              ELSE IF pk.threw
              THEN TokDone(call, getTokenInfoCatch(tokCall.address,
                                 <<"Failed to get token info from chain", pk.message>>))
              ELSE [call EXCEPT !.pc = "awaitMint", !.trace = Append(@, "rpc getMint")]
  /\ UNCHANGED <<now, tokenInfoCache, metadataCache>>

\* getTokenMetadata's test of what metadataCache.get returned:
\* if (cached !== null) return cached.  A stored null and a miss look alike.
MetadataCacheHit_Never(c, key, t, ttl) == FALSE

MetadataCacheHit_IfStored(c, key, t, ttl) ==
  key \in DOMAIN c /\ t - c[key].timestamp <= ttl

MetadataCacheHit(c, key, t, ttl) == Cache_get(c, key, t, ttl).value # Null

\* getMint resumes; then getTokenMetadata runs up to its account fetch.
TokMintResponse(resp) ==
  /\ tokCall.pc = "awaitMint"
  /\ IF ~resp.ok
     THEN /\ tokCall' = TokDone([tokCall EXCEPT !.mintOk = "failed"],
                           getTokenInfoCatch(tokCall.address,
                             <<"Failed to get token info from chain">> \o resp.message))
          /\ UNCHANGED metadataCache
     ELSE LET cached == Cache_get(metadataCache, tokCall.address, now, MetadataTtl)
              call == [tokCall EXCEPT !.mintOk = "ok", !.mint = resp.mint,
                                 !.trace = Append(@, "metadataCache.get")]
          IN /\ metadataCache' = cached.cache
             /\ tokCall' = IF MetadataCacheHit(metadataCache, tokCall.address, now, MetadataTtl)
                      THEN TokDone(call, [kind |-> "ok",
                                          value |-> ChainTokenInfo(tokCall.address, resp.mint,
                                                                   cached.value)])
                      ELSE [call EXCEPT !.pc = "awaitMetadataAccount",
                                        !.trace = Append(@, "rpc getAccountInfo")]
  /\ UNCHANGED <<now, tokenInfoCache>>

\* getTokenMetadata called on its own, up to the account fetch of
\* fetchTokenMetadata.  An address that is no public key makes
\* fetchTokenMetadata return null from its catch, and the null is stored.
TokGetTokenMetadata(address) ==
  /\ tokCall.pc \in {"idle", "done"}
  /\ tokCall.calls < MaxTokCalls
  /\ LET cached == Cache_get(metadataCache, address, now, MetadataTtl)
         call == [TokIdle EXCEPT !.op = "getTokenMetadata", !.address = address,
                                 !.trace = <<"metadataCache.get">>,
                                 !.calls = tokCall.calls + 1]
     IN IF MetadataCacheHit(metadataCache, address, now, MetadataTtl)
        THEN /\ metadataCache' = cached.cache
             /\ tokCall' = TokDone(call, [kind |-> "ok", value |-> cached.value])
        ELSE IF PublicKey_new(address).threw
        THEN /\ metadataCache' = Cache_set(cached.cache, address, Null, now)
             /\ tokCall' = TokDone(call, [kind |-> "ok", value |-> Null])
        ELSE /\ metadataCache' = cached.cache
             /\ tokCall' = [call EXCEPT !.pc = "awaitMetadataAccount",
                                        !.trace = Append(@, "rpc getAccountInfo")]
  /\ UNCHANGED <<now, tokenInfoCache>>

\* What fetchTokenMetadata returns once getAccountInfo has answered: null for
\* a failed fetch and for no account, the decoded metadata otherwise.
fetchTokenMetadata_Placeholder(resp) ==
  IF ~resp.ok \/ resp.account = Null THEN MetadataPlaceholder
  ELSE decodeMetadata(resp.account.data).value

fetchTokenMetadata(resp) ==
  IF ~resp.ok \/ resp.account = Null THEN Null
  ELSE decodeMetadata(resp.account.data).value

\* fetchTokenMetadata resumes; getTokenMetadata stores what it got and
\* returns it, to its caller or to getTokenInfoFromChain.
TokMetadataAccountResponse(resp) ==
  /\ tokCall.pc = "awaitMetadataAccount"
  /\ LET metadata == fetchTokenMetadata(resp)
         call == [tokCall EXCEPT !.metaAccount = IF ~resp.ok THEN "failed"
                                                 ELSE IF resp.account = Null THEN "absent"
                                                 ELSE "present"]
     IN /\ metadataCache' = Cache_set(metadataCache, tokCall.address, metadata, now)
        /\ tokCall' = TokDone(call,
                         [kind |-> "ok",
                          value |-> IF tokCall.op = "getTokenMetadata" THEN metadata
                                    ELSE ChainTokenInfo(tokCall.address, tokCall.mint,
                                                        metadata)])
  /\ UNCHANGED <<now, tokenInfoCache>>

(***************************************************************************)
(* PoolService: the pool state layout and its decoder.                     *)
(***************************************************************************)
RAYDIUM_V4_PROGRAM_ID == PublicKey_new(RAYDIUM_V4_PROGRAM_ID_STR)

\* BN.toString() of a little-endian unsigned integer: its decimal digits.
BNToString(bytesLE) ==
  LET be == Reverse(bytesLE)
      zeros == LeadingCount(be, 0)
      digits == Reverse(Rebase(SubSeq(be, zeros + 1, Len(be)), 256, 10, <<>>))
  IN IF digits = <<>> THEN <<48>> ELSE [i \in 1..Len(digits) |-> 48 + digits[i]]

\* POOL_STATE_LAYOUT: six 32-byte keys, the u8 nonce, four u64.
PoolKeyFields ==
  <<"baseTokenMint", "quoteTokenMint", "lpTokenMint", "baseVault", "quoteVault", "authority">>
PoolNonceOffset == 6 * 32
PoolU64Fields == <<"openTime", "lpSupply", "lastRewardTime", "rewardPerSecond">>
PoolStateSpan == PoolNonceOffset + 1 + 4 * 8

\* decodePoolData: a blob is a slice and never fails; the nonce is a read of
\* one byte, a RangeError outside the buffer.
decodePoolData(data) ==
  IF PoolNonceOffset >= Len(data)
  THEN [threw |-> TRUE, message |-> <<"RangeError">>]
  ELSE [threw |-> FALSE,
        value |->
          [f \in {PoolKeyFields[i] : i \in DOMAIN PoolKeyFields} |->
             LET i == CHOOSE k \in DOMAIN PoolKeyFields : PoolKeyFields[k] = f
             IN slice(data, 32 * (i - 1), 32 * i)]
          @@ [f \in {"nonce"} |-> data[PoolNonceOffset + 1]]
          @@ [f \in {PoolU64Fields[i] : i \in DOMAIN PoolU64Fields} |->
                LET i == CHOOSE k \in DOMAIN PoolU64Fields : PoolU64Fields[k] = f
                IN slice(data, PoolNonceOffset + 1 + 8 * (i - 1), PoolNonceOffset + 1 + 8 * i)]]

isRaydiumV4Pool(poolAccount) == poolAccount.owner = RAYDIUM_V4_PROGRAM_ID.key

\* JSON.stringify(RAYDIUM_V4_POOL_ABI, null, 2): one fixed, non-empty text.
ContractABI == [json |-> "RAYDIUM_V4_POOL_ABI"]

\* The PoolInfo fetchPoolInfo returns.
BuildPoolInfo(poolData, tokenPair, contractABI) ==
  [baseToken |-> tokenPair.baseToken,
   quoteToken |-> tokenPair.quoteToken,
   baseTokenAddress |-> PublicKeyToString(poolData.baseTokenMint),
   quoteTokenAddress |-> PublicKeyToString(poolData.quoteTokenMint),
   lpTokenAddress |-> PublicKeyToString(poolData.lpTokenMint),
   baseVault |-> PublicKeyToString(poolData.baseVault),
   quoteVault |-> PublicKeyToString(poolData.quoteVault),
   authority |-> PublicKeyToString(poolData.authority),
   nonce |-> poolData.nonce,
   openTime |-> BNToString(poolData.openTime),
   lpSupply |-> BNToString(poolData.lpSupply),
   contractABI |-> contractABI]

(***************************************************************************)
(* The pool state as the account stores it: the field order of the         *)
(* serialized record, little-endian, 349 bytes.                            *)
(***************************************************************************)
SerializedKeyFields ==
  <<"ammId", "baseTokenMint", "quoteTokenMint", "lpTokenMint", "baseVault", "quoteVault",
    "authority">>

RECURSIVE ConcatFields(_, _)
ConcatFields(rec, fields) ==
  IF fields = <<>> THEN <<>> ELSE rec[Head(fields)] \o ConcatFields(rec, Tail(fields))

SerializePoolState(rec) ==
  <<rec.version, rec.isInitialized, rec.nonce>>
    \o ConcatFields(rec, SerializedKeyFields)
    \o rec.openTime \o rec.lpSupply
    \o Repeat(0, 6 * 8 + 2 + 7 * 8)

LayoutIdle ==
  /\ plRecord = Null
  /\ plOut = [state |-> "idle"]

(***************************************************************************)
(* What the network can answer to PoolService.                             *)
(***************************************************************************)
GoodPoolData ==
  KnownKeys[USDC_MINT].key \o KnownKeys[WSOL_MINT].key \o KnownKeys[POOL_ADDRESS].key
    \o KnownKeys[SYSTEM_PROGRAM_STR].key \o KnownKeys[RAYDIUM_V4_PROGRAM_ID_STR].key
    \o KnownKeys[USDC_MINT].key
    \o <<254>>
    \o <<0, 202, 154, 59, 1, 0, 0, 0>> \o <<64, 66, 15, 0, 0, 0, 0, 0>>
    \o <<0, 0, 0, 0, 0, 0, 0, 0>> \o <<10, 0, 0, 0, 0, 0, 0, 0>>

\* The same account after a change: the two mints the other way round.
ChangedPoolData ==
  KnownKeys[WSOL_MINT].key \o KnownKeys[USDC_MINT].key \o SubSeq(GoodPoolData, 65, Len(GoodPoolData))

\* Cut inside the keys, and cut inside openTime (lpSupply and the rest missing).
ShortPoolData == SubSeq(GoodPoolData, 1, 100)
TruncatedPoolData == SubSeq(GoodPoolData, 1, 200)

PoolAccounts ==
  [owner : {KnownKeys[RAYDIUM_V4_PROGRAM_ID_STR].key},
   data : {GoodPoolData, ShortPoolData, TruncatedPoolData}]
    \cup [owner : {KnownKeys[SYSTEM_PROGRAM_STR].key}, data : {GoodPoolData}]

AccountResponses ==
  {[ok |-> FALSE, message |-> <<"fetch failed">>], [ok |-> TRUE, account |-> Null]}
    \cup {[ok |-> TRUE, account |-> a] : a \in PoolAccounts}

\* tokenService.getTokenInfo for one leg, the mint not being in the token
\* list and having no metadata: what getMint answers decides the leg.  A
\* failed resolution ends in the catch of getTokenInfo, which never rejects.
LegMintResponses == {r \in MintResponses : r.ok => r.mint.decimals = 6}

TokenLeg_Reject(mint, resp) ==
  [kind |-> "error", message |-> <<"Failed to get token info">>]

TokenLeg(mint, resp) ==
  IF ~resp.ok
  THEN getTokenInfoCatch(mint, <<"Failed to get token info from chain">> \o resp.message)
  ELSE [kind |-> "ok", value |-> ChainTokenInfo(mint, resp.mint, Null)]

\* "0", "1500"
BalanceResponses ==
  {[ok |-> FALSE, message |-> <<"balance failed">>],
   [ok |-> TRUE, value |-> [amount |-> <<48>>, decimals |-> 0]],
   [ok |-> TRUE, value |-> [amount |-> <<49, 53, 48, 48>>, decimals |-> 2]]}

(***************************************************************************)
(* PoolService, one step per await.  pool.trace lists, in order, the cache *)
(* lookups and the network calls of the call; pool.fetched lists what each *)
(* account fetch answered and pool.decodes the owner of every account      *)
(* whose data went through decodePoolData.                                 *)
(***************************************************************************)
InfoOps == {"getPoolInfo", "getPoolLiquidity", "getPriceRatio"}
PoolOps == InfoOps \cup {"getPoolTokenPair", "getContractABI"}
PoolAddresses == {POOL_ADDRESS, INVALID_ADDRESS}

PoolIdle ==
  [pc |-> "idle", op |-> "none", address |-> <<>>, startedAt |-> 0, trace |-> <<>>,
   decodes |-> <<>>, fetched |-> <<>>, poolData |-> Null, pairData |-> Null,
   legs |-> <<>>, tokenPair |-> Null, info |-> Null, vaults |-> <<>>, balances |-> <<>>,
   result |-> [kind |-> "none"], calls |-> 0]

PoolInit ==
  /\ poolInfoCache = EmptyMap
  /\ tokenPairCache = EmptyMap
  /\ abiCache = EmptyMap
  /\ pool = PoolIdle
  /\ lastPoolInfo = EmptyMap

\* The service as one value, so that a method and the methods it calls are
\* one function of it.
PoolState ==
  [call |-> pool, info |-> poolInfoCache, pair |-> tokenPairCache, abi |-> abiCache,
   last |-> lastPoolInfo]

PoolCommit(st) ==
  /\ pool' = st.call
  /\ poolInfoCache' = st.info
  /\ tokenPairCache' = st.pair
  /\ abiCache' = st.abi
  /\ lastPoolInfo' = st.last
  /\ UNCHANGED now

\* The catch blocks: each method prefixes the message of what it caught, and
\* fetchPoolInfo prefixes what getPoolTokenPair and getContractABI threw.
WrapError(op, stage, message) ==
  LET inner == CASE stage = "pair" -> <<"Failed to get pool token pair">> \o message
                 [] stage = "abi" -> <<"Failed to get contract ABI">> \o message
                 [] OTHER -> message
  IN IF stage \in {"validate", "liquidity"} THEN message
     ELSE IF op \in InfoOps THEN <<"Failed to get pool info">> \o inner
     ELSE inner

PoolReturn(st, value) ==
  [st EXCEPT !.call.pc = "done", !.call.result = [kind |-> "ok", value |-> value]]

PoolFail(st, stage, message) ==
  [st EXCEPT !.call.pc = "done",
             !.call.result = [kind |-> "error",
                              message |-> WrapError(st.call.op, stage, message)]]

FetchOutcome(stage, resp) ==
  [stage |-> stage,
   outcome |-> IF ~resp.ok THEN "error"
               ELSE IF resp.account = Null THEN "absent"
               ELSE IF isRaydiumV4Pool(resp.account) THEN "amm" ELSE "foreign",
   dataLength |-> IF stage = "info" /\ resp.ok /\ resp.account # Null
                  THEN Len(resp.account.data) ELSE 0]

\* getPoolLiquidity once getPoolInfo has returned: both balances are requested.
EnterLiquidity(st, poolInfo) ==
  [st EXCEPT !.call.pc = "awaitBalances", !.call.info = poolInfo,
             !.call.vaults = <<poolInfo.baseVault, poolInfo.quoteVault>>,
             !.call.trace = @ \o <<"rpc getTokenAccountBalance", "rpc getTokenAccountBalance">>]

InfoReturn(st, poolInfo) ==
  IF st.call.op = "getPoolInfo" THEN PoolReturn(st, poolInfo) ELSE EnterLiquidity(st, poolInfo)

\* getPoolInfo after fetchPoolInfo: this.poolInfoCache.set(address, poolInfo)
getPoolInfoStore_Skip(c, address, poolInfo, t) == c

getPoolInfoStore_KeepFirst(c, address, poolInfo, t) ==
  IF address \in DOMAIN c THEN c ELSE Cache_set(c, address, poolInfo, t)

getPoolInfoStore(c, address, poolInfo, t) == Cache_set(c, address, poolInfo, t)

InfoFetched(st, contractABI, t) ==
  LET poolInfo == BuildPoolInfo(st.call.poolData, st.call.tokenPair, contractABI)
  IN InfoReturn([st EXCEPT !.info = getPoolInfoStore(@, st.call.address, poolInfo, t),
                           !.last = MapSet(@, st.call.address,
                                           [value |-> poolInfo, at |-> t,
                                            call |-> st.call.calls])],
                poolInfo)

AbiReturn(st, abi, t) ==
  IF st.call.op = "getContractABI" THEN PoolReturn(st, abi) ELSE InfoFetched(st, abi, t)

\* getContractABI up to its await.
EnterAbi(st, t) ==
  LET cached == Cache_get(st.abi, st.call.address, t, AbiTtl)
      st1 == [st EXCEPT !.abi = cached.cache, !.call.trace = Append(@, "abiCache.get")]
      pk == PublicKey_new(st.call.address)
  IN IF cached.value # Null THEN AbiReturn(st1, cached.value, t)
     ELSE IF pk.threw THEN PoolFail(st1, "abi", <<pk.message>>)
     ELSE [st1 EXCEPT !.call.pc = "awaitAbiAccount",
                      !.call.trace = Append(@, "rpc getAccountInfo")]

PairReturn(st, tokenPair, t) ==
  IF st.call.op = "getPoolTokenPair" THEN PoolReturn(st, tokenPair)
  ELSE EnterAbi([st EXCEPT !.call.tokenPair = tokenPair], t)

\* getPoolTokenPair up to its first await.
EnterPair(st, t) ==
  LET cached == Cache_get(st.pair, st.call.address, t, TokenPairTtl)
      st1 == [st EXCEPT !.pair = cached.cache,
                        !.call.trace = Append(@, "tokenPairCache.get")]
      pk == PublicKey_new(st.call.address)
  IN IF cached.value # Null THEN PairReturn(st1, cached.value, t)
     ELSE IF pk.threw THEN PoolFail(st1, "pair", <<pk.message>>)
     ELSE [st1 EXCEPT !.call.pc = "awaitPairAccount",
                      !.call.trace = Append(@, "rpc getAccountInfo")]

\* getPoolInfo, and fetchPoolInfo up to its first await.
EnterInfo(st, t) ==
  LET cached == Cache_get(st.info, st.call.address, t, PoolInfoTtl)
      st1 == [st EXCEPT !.info = cached.cache,
                        !.call.trace = Append(@, "poolInfoCache.get")]
  IN IF cached.value # Null THEN InfoReturn(st1, cached.value)
     ELSE IF ~validatePoolAddress(st.call.address)
     THEN PoolFail(st1, "validate", <<"Invalid pool address">>)
     ELSE IF PublicKey_new(st.call.address).threw
     THEN PoolFail(st1, "info", <<PublicKey_new(st.call.address).message>>)
     ELSE [st1 EXCEPT !.call.pc = "awaitInfoAccount",
                      !.call.trace = Append(@, "rpc getAccountInfo")]

\* A call of one of the five public methods, up to its first await.
PoolCall(op, address) ==
  /\ pool.pc \in {"idle", "done"}
  /\ pool.calls < MaxPoolCalls
  /\ LET call == [PoolIdle EXCEPT !.op = op, !.address = address, !.startedAt = now,
                                  !.calls = pool.calls + 1]
         st == [PoolState EXCEPT !.call = call]
     IN PoolCommit(CASE op \in InfoOps -> EnterInfo(st, now)
                     [] op = "getPoolTokenPair" -> EnterPair(st, now)
                     [] OTHER -> EnterAbi(st, now))

\* fetchPoolInfo resumes with the account.
PoolInfoAccountResponse(resp) ==
  /\ pool.pc = "awaitInfoAccount"
  /\ LET st == [PoolState EXCEPT !.call.fetched = Append(@, FetchOutcome("info", resp))]
     IN PoolCommit(
          IF ~resp.ok THEN PoolFail(st, "info", resp.message)
          ELSE IF resp.account = Null THEN PoolFail(st, "info", <<"Pool not found">>)
          ELSE IF ~isRaydiumV4Pool(resp.account)
          THEN PoolFail(st, "info", <<"Not a valid Raydium V4 pool">>)
          ELSE LET d == decodePoolData(resp.account.data)
                   st1 == [st EXCEPT !.call.decodes = Append(@, resp.account.owner)]
               IN IF d.threw THEN PoolFail(st1, "info", d.message)
                  ELSE EnterPair([st1 EXCEPT !.call.poolData = d.value], now))

\* getPoolTokenPair resumes with the account; both legs are then requested.
PoolPairAccountResponse(resp) ==
  /\ pool.pc = "awaitPairAccount"
  /\ LET st == [PoolState EXCEPT !.call.fetched = Append(@, FetchOutcome("pair", resp))]
     IN PoolCommit(
          IF ~resp.ok THEN PoolFail(st, "pair", resp.message)
          ELSE IF resp.account = Null THEN PoolFail(st, "pair", <<"Pool not found">>)
          ELSE LET d == decodePoolData(resp.account.data)
                   st1 == [st EXCEPT !.call.decodes = Append(@, resp.account.owner)]
               IN IF d.threw THEN PoolFail(st1, "pair", d.message)
                  ELSE [st1 EXCEPT !.call.pc = "awaitTokens",
                                   !.call.pairData =
                                     [baseTokenMint |-> d.value.baseTokenMint,
                                      quoteTokenMint |-> d.value.quoteTokenMint],
                                   !.call.trace = @ \o <<"tokenService.getTokenInfo",
                                                         "tokenService.getTokenInfo">>])

\* Promise.all of the two getTokenInfo settles: it rejects with the first
\* rejection, otherwise the pair is cached.  pool.legs keeps what getMint
\* answered for the base and for the quote leg.
PoolTokenLegsResponse ==
  /\ pool.pc = "awaitTokens"
  /\ \E baseMint \in LegMintResponses, quoteMint \in LegMintResponses :
       LET baseToken == TokenLeg(PublicKeyToString(pool.pairData.baseTokenMint), baseMint)
           quoteToken == TokenLeg(PublicKeyToString(pool.pairData.quoteTokenMint), quoteMint)
           st == [PoolState EXCEPT !.call.legs = <<baseMint, quoteMint>>]
           result == [baseToken |-> baseToken.value, quoteToken |-> quoteToken.value]
       IN PoolCommit(
            IF baseToken.kind = "error" THEN PoolFail(st, "pair", baseToken.message)
            ELSE IF quoteToken.kind = "error" THEN PoolFail(st, "pair", quoteToken.message)
            ELSE PairReturn([st EXCEPT !.pair = Cache_set(@, pool.address, result, now)],
                            result, now))

\* getContractABI resumes with the account.
PoolAbiAccountResponse(resp) ==
  /\ pool.pc = "awaitAbiAccount"
  /\ LET st == [PoolState EXCEPT !.call.fetched = Append(@, FetchOutcome("abi", resp))]
     IN PoolCommit(
          IF ~resp.ok THEN PoolFail(st, "abi", resp.message)
          ELSE IF resp.account = Null \/ ~isRaydiumV4Pool(resp.account)
          THEN PoolFail(st, "abi", <<"Not a valid Raydium V4 pool">>)
          ELSE AbiReturn([st EXCEPT !.abi = Cache_set(@, pool.address, ContractABI, now)],
                         ContractABI, now))

\* Number(text) of a string of decimal digits.
RECURSIVE ParseNumber(_)
ParseNumber(str) ==
  IF str = <<>> THEN 0 ELSE 10 * ParseNumber(SubSeq(str, 1, Len(str) - 1)) + (str[Len(str)] - 48)

\* Numbers are exact fractions in lowest terms, so that equal numbers are
\* equal values.
RECURSIVE Gcd(_, _)
Gcd(a, b) == IF b = 0 THEN a ELSE Gcd(b, a % b)

Fraction(n, d) ==
  LET g == Gcd(n, d) IN [kind |-> "number", num |-> n \div g, den |-> d \div g]

Divide_ZeroGuard(a, b) ==
  IF b.num = 0 THEN Fraction(0, 1)
  ELSE LET g == Gcd(a.num, b.num)
           h == Gcd(a.den, b.den)
       IN Fraction((a.num \div g) * (b.den \div h), (a.den \div h) * (b.num \div g))

\* a / b of two finite numbers: x / 0 is Infinity, 0 / 0 is NaN.
Divide(a, b) ==
  IF b.num = 0 THEN (IF a.num = 0 THEN [kind |-> "NaN"] ELSE [kind |-> "Infinity"])
  ELSE LET g == Gcd(a.num, b.num)
           h == Gcd(a.den, b.den)
       IN Fraction((a.num \div g) * (b.den \div h), (a.den \div h) * (b.num \div g))

getPriceRatio_RawInverse(liquidity) ==
  LET baseAmount == Fraction(ParseNumber(liquidity.baseTokenAmount),
                             10 ^ liquidity.baseTokenDecimals)
      quoteAmount == Fraction(ParseNumber(liquidity.quoteTokenAmount),
                              10 ^ liquidity.quoteTokenDecimals)
  IN [baseToQuote |-> Divide(quoteAmount, baseAmount),
      quoteToBase |-> Divide(Fraction(ParseNumber(liquidity.baseTokenAmount), 1),
                             Fraction(ParseNumber(liquidity.quoteTokenAmount), 1))]

getPriceRatio_Swapped(liquidity) ==
  LET baseAmount == Fraction(ParseNumber(liquidity.baseTokenAmount),
                             10 ^ liquidity.baseTokenDecimals)
      quoteAmount == Fraction(ParseNumber(liquidity.quoteTokenAmount),
                              10 ^ liquidity.quoteTokenDecimals)
  IN [baseToQuote |-> Divide(baseAmount, quoteAmount),
      quoteToBase |-> Divide(quoteAmount, baseAmount)]

getPriceRatio(liquidity) ==
  LET baseAmount == Fraction(ParseNumber(liquidity.baseTokenAmount),
                             10 ^ liquidity.baseTokenDecimals)
      quoteAmount == Fraction(ParseNumber(liquidity.quoteTokenAmount),
                              10 ^ liquidity.quoteTokenDecimals)
  IN [baseToQuote |-> Divide(quoteAmount, baseAmount),
      quoteToBase |-> Divide(baseAmount, quoteAmount)]

RatioIdle ==
  /\ prLiquidity = Null
  /\ prOut = [state |-> "idle"]

\* What getPoolLiquidity returns from the two balances it awaited.
\* "1000"
BuildLiquidity_Fixed(baseVaultInfo, quoteVaultInfo) ==
  [baseTokenAmount |-> <<49, 48, 48, 48>>, quoteTokenAmount |-> <<49, 48, 48, 48>>,
   baseTokenDecimals |-> 2, quoteTokenDecimals |-> 2]

BuildLiquidity(baseVaultInfo, quoteVaultInfo) ==
  [baseTokenAmount |-> baseVaultInfo.value.amount,
   quoteTokenAmount |-> quoteVaultInfo.value.amount,
   baseTokenDecimals |-> baseVaultInfo.value.decimals,
   quoteTokenDecimals |-> quoteVaultInfo.value.decimals]

\* Promise.all of the two balances settles: it rejects with a rejection of
\* either, else getPoolLiquidity returns, to the caller or into getPriceRatio.
\* pool.balances keeps the [baseVaultInfo, quoteVaultInfo] it resolved with.
PoolBalancesResponse(baseVaultInfo, quoteVaultInfo) ==
  /\ pool.pc = "awaitBalances"
  /\ \E failed \in {r \in {baseVaultInfo, quoteVaultInfo} : ~r.ok} \cup {Null} :
       /\ failed = Null <=> (baseVaultInfo.ok /\ quoteVaultInfo.ok)
       /\ LET st == [PoolState EXCEPT !.call.balances = <<baseVaultInfo, quoteVaultInfo>>]
          IN PoolCommit(
               IF failed # Null THEN PoolFail(PoolState, "liquidity", failed.message)
               ELSE LET liquidity == BuildLiquidity(baseVaultInfo, quoteVaultInfo)
                    IN PoolReturn(st, IF pool.op = "getPoolLiquidity" THEN liquidity
                                      ELSE getPriceRatio(liquidity)))

(***************************************************************************)
(* PoolService.getPoolWithExtendedInfo.  A PoolInfo is an object: extHeap  *)
(* maps a reference (an index) to the record it holds, poolInfoCache holds *)
(* a reference, and getPoolInfo returns the reference it stored or found.  *)
(* A property that is absent is a field outside the record's domain.  The  *)
(* three methods it awaits are taken by their outcomes.                    *)
(***************************************************************************)
ExtOps == {"getPoolInfo", "getPoolWithExtendedInfo"}
ExtOptions == [withLiquidity : BOOLEAN, withPrice : BOOLEAN]

ExtPoolInfos ==
  {BuildPoolInfo(decodePoolData(GoodPoolData).value,
                 [baseToken |-> TokenLeg(USDC_MINT, r).value,
                  quoteToken |-> TokenLeg(WSOL_MINT, r).value],
                 ContractABI) : r \in LegMintResponses}

ExtInfoOutcomes ==
  {[kind |-> "hit"], [kind |-> "failed"]} \cup {[kind |-> "fetched", value |-> p] : p \in ExtPoolInfos}

ExtLiquidityValues ==
  {BuildLiquidity(b, [ok |-> TRUE, value |-> [amount |-> <<49, 53, 48, 48>>, decimals |-> 2]]) :
     b \in {r \in BalanceResponses : r.ok}}

ExtLiquidityOutcomes ==
  {[ok |-> FALSE, message |-> <<"Failed to get pool liquidity">>]}
    \cup {[ok |-> TRUE, value |-> l] : l \in ExtLiquidityValues}

ExtPriceOutcomes ==
  {[ok |-> FALSE, message |-> <<"Failed to get price ratio">>]}
    \cup {[ok |-> TRUE, value |-> getPriceRatio(l)] : l \in ExtLiquidityValues}

ExtIdle ==
  [pc |-> "idle", op |-> "none", options |-> [withLiquidity |-> FALSE, withPrice |-> FALSE],
   info |-> Null, liquidity |-> Null, price |-> Null, ref |-> 0,
   result |-> [kind |-> "none"], calls |-> 0]

ExtInit ==
  /\ extHeap = <<>>
  /\ extCache = 0
  /\ ext = ExtIdle

\* const extendedInfo = { ...poolInfo }: a new object with the same properties.
CopyPoolInfo_Alias(heap, ref) == [heap |-> heap, ref |-> ref]

CopyPoolInfo(heap, ref) == [heap |-> Append(heap, heap[ref]), ref |-> Len(heap) + 1]

\* extendedInfo.liquidity = ..., extendedInfo.price = ...
ExtAssign(heap, ref, field, value) == [heap EXCEPT ![ref] = (field :> value) @@ @]

\* What follows the step named: the next requested augmentation, or the return.
ExtNext(call, after) ==
  IF after = "info" /\ call.options.withLiquidity THEN [call EXCEPT !.pc = "awaitLiquidity"]
  ELSE IF after \in {"info", "liquidity"} /\ call.options.withPrice
  THEN [call EXCEPT !.pc = "awaitPrice"]
  ELSE [call EXCEPT !.pc = "done", !.result = [kind |-> "ok", ref |-> call.ref]]

\* try { extendedInfo[field] = await ... } catch { console.warn }
ExtAfterAugment_Rethrow(heap, call, field, outcome) ==
  IF outcome.ok
  THEN [heap |-> ExtAssign(heap, call.ref, field, outcome.value), call |-> ExtNext(call, field)]
  ELSE [heap |-> heap,
        call |-> [call EXCEPT !.pc = "done",
                              !.result = [kind |-> "error", message |-> outcome.message]]]

ExtAfterAugment(heap, call, field, outcome) ==
  IF outcome.ok
  THEN [heap |-> ExtAssign(heap, call.ref, field, outcome.value), call |-> ExtNext(call, field)]
  ELSE [heap |-> heap, call |-> ExtNext(call, field)]

\* A call of getPoolInfo or of getPoolWithExtendedInfo, up to its first await.
ExtCall(op, options) ==
  /\ ext.pc \in {"idle", "done"}
  /\ ext.calls < MaxExtCalls
  /\ ext' = [ExtIdle EXCEPT !.pc = "awaitInfo", !.op = op, !.options = options,
                            !.calls = ext.calls + 1]
  /\ UNCHANGED <<now, extHeap, extCache>>

\* getPoolInfo settles: a cache hit, a fetch that is stored, or a failure.
ExtInfoResponse(outcome) ==
  /\ ext.pc = "awaitInfo"
  /\ outcome.kind = "hit" => extCache # 0
  /\ IF outcome.kind = "failed"
     THEN /\ ext' = [ext EXCEPT !.pc = "done",
                                !.result = [kind |-> "error",
                                            message |-> <<"Failed to get pool info">>]]
          /\ UNCHANGED <<extHeap, extCache>>
     ELSE LET heap == IF outcome.kind = "fetched" THEN Append(extHeap, outcome.value)
                      ELSE extHeap
              ref == IF outcome.kind = "fetched" THEN Len(heap) ELSE extCache
              copy == CopyPoolInfo(heap, ref)
          IN /\ extCache' = ref
             /\ IF ext.op = "getPoolInfo"
                THEN /\ extHeap' = heap
                     /\ ext' = [ext EXCEPT !.pc = "done", !.info = heap[ref],
                                           !.result = [kind |-> "ok", ref |-> ref]]
                ELSE /\ extHeap' = copy.heap
                     /\ ext' = ExtNext([ext EXCEPT !.info = heap[ref], !.ref = copy.ref],
                                       "info")
  /\ UNCHANGED now

\* getPoolLiquidity settles.
ExtLiquidityResponse(outcome) ==
  /\ ext.pc = "awaitLiquidity"
  /\ LET after == ExtAfterAugment(extHeap, [ext EXCEPT !.liquidity = outcome],
                                  "liquidity", outcome)
     IN extHeap' = after.heap /\ ext' = after.call
  /\ UNCHANGED <<now, extCache>>

\* getPriceRatio settles.
ExtPriceResponse(outcome) ==
  /\ ext.pc = "awaitPrice"
  /\ LET after == ExtAfterAugment(extHeap, [ext EXCEPT !.price = outcome], "price", outcome)
     IN extHeap' = after.heap /\ ext' = after.call
  /\ UNCHANGED <<now, extCache>>

(***************************************************************************)
(* PoolService.getPoolInfo called several times at once for one address.   *)
(* A call runs from its start to its await and from the settling of its    *)
(* fetch to its return without another call running in between; between    *)
(* the two, any other call may run.                                        *)
(***************************************************************************)
Racers == 1..NumRacers

RaceIdle ==
  [cache |-> EmptyMap,
   pc |-> [c \in Racers |-> "idle"],
   ret |-> [c \in Racers |-> [kind |-> "none"]],
   missed |-> {}, fetched |-> {}, lastSet |-> Null]

RaceInit == race = RaceIdle

\* getPoolInfo up to its await: the cache lookup, and the return on a hit.
RaceCall(c) ==
  /\ race.pc[c] = "idle"
  /\ LET cached == Cache_get(race.cache, POOL_ADDRESS, now, PoolInfoTtl)
     IN race' = IF cached.value # Null
                THEN [race EXCEPT !.pc[c] = "done",
                                  !.ret[c] = [kind |-> "ok", value |-> cached.value]]
                ELSE [race EXCEPT !.cache = cached.cache,
                                  !.pc[c] = "awaitFetch",
                                  !.missed = @ \cup {c},
                                  !.lastSet = IF cached.cache = race.cache THEN @ ELSE Null]
  /\ UNCHANGED now

\* fetchPoolInfo settles: its PoolInfo is stored and returned, or it threw.
RaceFetchResponse(c, outcome) ==
  /\ race.pc[c] = "awaitFetch"
  /\ outcome.kind # "hit"
  /\ race' = IF outcome.kind = "failed"
             THEN [race EXCEPT !.pc[c] = "done",
                               !.ret[c] = [kind |-> "error",
                                           message |-> <<"Failed to get pool info">>]]
             ELSE [race EXCEPT !.cache = getPoolInfoStore(@, POOL_ADDRESS, outcome.value, now),
                               !.pc[c] = "done",
                               !.ret[c] = [kind |-> "ok", value |-> outcome.value],
                               !.fetched = @ \cup {outcome.value},
                               !.lastSet = [caller |-> c, value |-> outcome.value, at |-> now]]
  /\ UNCHANGED now

(***************************************************************************)
(* TokenService.fetchTokenInfo: the retry loop, one step per await.        *)
(* this.connection is the number of switches made so far; fti.attempts     *)
(* lists the connection each getMint was issued on.                        *)
(***************************************************************************)
MAX_RETRIES == 3

FtiIdle ==
  [pc |-> "idle", address |-> <<>>, retries |-> 0, connection |-> 0,
   attempts |-> <<>>, wake |-> 0, switched |-> "none",
   result |-> [kind |-> "none"], calls |-> 0]

FtiInit == fti = FtiIdle

FtiMetadata == {Null, decodeMetadata(UsdcMetadataData).value}

\* The head of the loop, at its start and after `continue` or the delay:
\* while (retries > 0) { try { ... await getMint(this.connection, ...) },
\* and the throw that follows the loop.
FtiLoop(call) ==
  IF call.retries > 0
  THEN [call EXCEPT !.pc = "awaitMint", !.attempts = Append(@, call.connection)]
  ELSE [call EXCEPT !.pc = "done",
                    !.result = [kind |-> "error",
                                message |-> <<"Failed to fetch token info after all retries">>]]

\* fetchTokenInfo up to its first await.
FtiCall(address) ==
  /\ fti.pc \in {"idle", "done"}
  /\ fti.calls < MaxFtiCalls
  /\ LET call == [FtiIdle EXCEPT !.address = address, !.connection = fti.connection,
                                 !.calls = fti.calls + 1]
     IN fti' = IF ~validateTokenAddress(address)
               THEN [call EXCEPT !.pc = "done",
                                 !.result = [kind |-> "error",
                                             message |-> <<"Invalid token address">>]]
               ELSE FtiLoop([call EXCEPT !.retries = MAX_RETRIES])
  /\ UNCHANGED now

\* getMint settles.  On success getTokenMetadata, which never throws, gives
\* the metadata or null and the TokenInfo is returned; on failure the catch
\* counts the attempt and either waits or turns to the backup endpoint.
FtiMintResponse(resp, metadata) ==
  /\ fti.pc = "awaitMint"
  /\ fti' = IF resp.ok
            THEN [fti EXCEPT !.pc = "done",
                             !.result = [kind |-> "ok",
                                         value |-> ChainTokenInfo(fti.address, resp.mint,
                                                                  metadata)]]
            ELSE IF fti.retries - 1 = 0
            THEN [fti EXCEPT !.retries = 0, !.pc = "awaitSwitch",
                             !.result = [kind |-> "pending", message |-> resp.message]]
            ELSE [fti EXCEPT !.retries = @ - 1, !.pc = "awaitDelay",
                             !.wake = now + RetryDelay]
  /\ UNCHANGED now

\* The timer of RETRY_DELAY fires.
FtiDelay ==
  /\ fti.pc = "awaitDelay"
  /\ now >= fti.wake
  /\ fti' = FtiLoop(fti)
  /\ UNCHANGED now

\* switchToBackupEndpoint settles: true after a switch, false when every
\* backup endpoint failed.
FtiSwitchResponse(switched) ==
  /\ fti.pc = "awaitSwitch"
  /\ fti' = IF switched
            THEN FtiLoop([fti EXCEPT !.switched = "yes", !.connection = @ + 1])
            ELSE [fti EXCEPT !.switched = "no", !.pc = "done",
                             !.result = [kind |-> "error", message |-> fti.result.message]]
  /\ UNCHANGED now

(***************************************************************************)
(* RateLimiter, sliding-window class.                                      *)
(***************************************************************************)
FilterWindow(ts, t) == SelectSeq(ts, LAMBDA x : t - x < RLInterval)

RLCanStart(c) ==
  /\ rlPc[c] = "idle"
  /\ Len(grantLog) + Cardinality({d \in RLCallers : rlPc[d] = "waiting"}) < MaxGrants

Returned(pending, cs) == SelectSeq(pending, LAMBDA x : x \notin cs)

Grant(c) ==
  /\ rlPc' = [rlPc EXCEPT ![c] = "idle"]
  /\ grantLog' = Append(grantLog, now)

SWAcquire(c) ==
  /\ rlImpl = "window"
  /\ RLCanStart(c)
  /\ LET ts == FilterWindow(timestamps, now)
         waitTime == RLInterval - (now - ts[1])
     IN IF Len(ts) >= RLLimit /\ waitTime > 0
        THEN /\ timestamps' = ts
             /\ rlPc' = [rlPc EXCEPT ![c] = "waiting"]
             /\ rlWake' = [rlWake EXCEPT ![c] = now + waitTime]
             /\ arrivals' = Append(arrivals, c)
             /\ UNCHANGED grantLog
        ELSE /\ timestamps' = Append(ts, now)
             /\ Grant(c)
             /\ UNCHANGED <<rlWake, arrivals>>
  /\ UNCHANGED <<now, rlImpl, tokens, lastRefill, queue, lastIntervalStart,
                 requestCount, timers>>

SWWake(c) ==
  /\ rlImpl = "window"
  /\ rlPc[c] = "waiting"
  /\ now >= rlWake[c]
  /\ timestamps' = Append(timestamps, now)
  /\ Grant(c)
  /\ arrivals' = Returned(arrivals, {c})
  /\ UNCHANGED <<now, rlImpl, tokens, lastRefill, queue, lastIntervalStart,
                 requestCount, timers, rlWake>>

(***************************************************************************)
(* RateLimiter, token-bucket class.                                        *)
(***************************************************************************)
refill(tk, last, t) ==
  LET timePassed == t - last
      refillAmount == (timePassed \div RLInterval) * RLLimit
  IN [tokens |-> Min(RLLimit, tk + refillAmount), lastRefill |-> t]

TBAcquire(c) ==
  /\ rlImpl = "bucket"
  /\ RLCanStart(c)
  /\ LET r == refill(tokens, lastRefill, now)
     IN /\ lastRefill' = r.lastRefill
        /\ IF r.tokens <= 0
           THEN /\ tokens' = r.tokens
                /\ rlPc' = [rlPc EXCEPT ![c] = "waiting"]
                /\ rlWake' = [rlWake EXCEPT ![c] = now + RLInterval]
                /\ arrivals' = Append(arrivals, c)
                /\ UNCHANGED grantLog
           ELSE /\ tokens' = r.tokens - 1
                /\ Grant(c)
                /\ UNCHANGED <<rlWake, arrivals>>
  /\ UNCHANGED <<now, rlImpl, timestamps, queue, lastIntervalStart,
                 requestCount, timers>>

TBWake(c) ==
  /\ rlImpl = "bucket"
  /\ rlPc[c] = "waiting"
  /\ now >= rlWake[c]
  /\ LET r == refill(tokens, lastRefill, now)
     IN /\ lastRefill' = r.lastRefill
        /\ tokens' = r.tokens - 1
  /\ Grant(c)
  /\ arrivals' = Returned(arrivals, {c})
  /\ UNCHANGED <<now, rlImpl, timestamps, queue, lastIntervalStart,
                 requestCount, timers, rlWake>>

(***************************************************************************)
(* RateLimiter, queue class.  processQueue is the whole recursive call:    *)
(* it resolves queued callers while the counter allows and always ends by  *)
(* scheduling one more timer.                                              *)
(***************************************************************************)
RECURSIVE processQueue_NoReset(_, _, _, _)
processQueue_NoReset(q, lis, rc, t) ==
  IF rc < RLLimit /\ Len(q) > 0
  THEN LET rest == processQueue_NoReset(Tail(q), lis, rc + 1, t)
       IN [rest EXCEPT !.granted = <<Head(q)>> \o rest.granted]
  ELSE [queue |-> q, lastIntervalStart |-> lis, requestCount |-> rc,
        granted |-> <<>>, due |-> t + RLInterval]

RECURSIVE processQueue(_, _, _, _)
processQueue(q, lis, rc, t) ==
  LET reset == t - lis > RLInterval
      lis1 == IF reset THEN t ELSE lis
      rc1 == IF reset THEN 0 ELSE rc
  IN IF rc1 < RLLimit /\ Len(q) > 0
     THEN LET rest == processQueue(Tail(q), lis1, rc1 + 1, t)
          IN [rest EXCEPT !.granted = <<Head(q)>> \o rest.granted]
     ELSE [queue |-> q, lastIntervalStart |-> lis1, requestCount |-> rc1,
           granted |-> <<>>, due |-> t + (RLInterval - (t - lis1))]

SeqRange(s) == {s[i] : i \in DOMAIN s}

RECURSIVE AppendTimes(_, _, _)
AppendTimes(log, n, t) == IF n = 0 THEN log ELSE AppendTimes(Append(log, t), n - 1, t)

ApplyProcessQueue(r, tm, pending) ==
  /\ queue' = r.queue
  /\ arrivals' = Returned(pending, SeqRange(r.granted))
  /\ lastIntervalStart' = r.lastIntervalStart
  /\ requestCount' = r.requestCount
  /\ timers' = [tm EXCEPT ![r.due] = @ + 1]
  /\ grantLog' = AppendTimes(grantLog, Len(r.granted), now)
  /\ rlPc' = [c \in RLCallers |->
                IF c \in SeqRange(r.granted) THEN "idle"
                ELSE IF c \in SeqRange(r.queue) THEN "waiting" ELSE rlPc[c]]

QAcquire(c) ==
  /\ rlImpl = "queue"
  /\ RLCanStart(c)
  /\ ApplyProcessQueue(processQueue(Append(queue, c), lastIntervalStart, requestCount, now),
                       timers, Append(arrivals, c))
  /\ UNCHANGED <<now, rlImpl, timestamps, tokens, lastRefill, rlWake>>

QTimer(d) ==
  /\ rlImpl = "queue"
  /\ timers[d] > 0
  /\ now >= d
  /\ ApplyProcessQueue(processQueue(queue, lastIntervalStart, requestCount, now),
                       [timers EXCEPT ![d] = @ - 1], arrivals)
  /\ UNCHANGED <<now, rlImpl, timestamps, tokens, lastRefill, rlWake>>

RLInit ==
  /\ rlImpl \in {"window", "bucket", "queue"}
  /\ timestamps = <<>>
  /\ tokens = RLLimit
  /\ lastRefill = 0
  /\ queue = <<>>
  /\ lastIntervalStart = 0
  /\ requestCount = 0
  /\ timers = [d \in TimerRange |-> 0]
  /\ rlPc = [c \in RLCallers |-> "idle"]
  /\ rlWake = [c \in RLCallers |-> 0]
  /\ grantLog = <<>>
  /\ arrivals = <<>>

RLIdle == RLInit /\ rlImpl = "window"

InitRL ==
  /\ now = 0
  /\ RLInit
  /\ CacheInit
  /\ MetaIdle
  /\ TokInit
  /\ PoolInit
  /\ LayoutIdle
  /\ RatioIdle
  /\ ExtInit /\ RaceInit /\ FtiInit

NextRL ==
  \/ Tick /\ UNCHANGED <<rlVars, cacheVars, mdVars, tokVars, poolVars, layoutVars, ratioVars, extVars, raceVars, ftiVars>>
  \/ \E c \in RLCallers : SWAcquire(c) /\ UNCHANGED <<cacheVars, mdVars, tokVars, poolVars, layoutVars, ratioVars, extVars, raceVars, ftiVars>>
  \/ \E c \in RLCallers : SWWake(c) /\ UNCHANGED <<cacheVars, mdVars, tokVars, poolVars, layoutVars, ratioVars, extVars, raceVars, ftiVars>>
  \/ \E c \in RLCallers : TBAcquire(c) /\ UNCHANGED <<cacheVars, mdVars, tokVars, poolVars, layoutVars, ratioVars, extVars, raceVars, ftiVars>>
  \/ \E c \in RLCallers : TBWake(c) /\ UNCHANGED <<cacheVars, mdVars, tokVars, poolVars, layoutVars, ratioVars, extVars, raceVars, ftiVars>>
  \/ \E c \in RLCallers : QAcquire(c) /\ UNCHANGED <<cacheVars, mdVars, tokVars, poolVars, layoutVars, ratioVars, extVars, raceVars, ftiVars>>
  \/ \E d \in TimerRange : QTimer(d) /\ UNCHANGED <<cacheVars, mdVars, tokVars, poolVars, layoutVars, ratioVars, extVars, raceVars, ftiVars>>

SpecRL == InitRL /\ [][NextRL]_vars

(***************************************************************************)
(* The rate limiters with timers that fire.  Callers arrive up to MaxTime; *)
(* the clock keeps running afterwards, every setTimeout callback that is   *)
(* due is eventually run, and a sleeping caller is eventually resumed.     *)
(* A callback runs at its due time or up to MaxLate ticks after it: the    *)
(* clock does not pass a callback that is MaxLate ticks overdue.           *)
(***************************************************************************)
TimerOverdue ==
  \/ /\ rlImpl \in {"window", "bucket"}
     /\ \E c \in RLCallers : rlPc[c] = "waiting" /\ rlWake[c] + MaxLate <= now
  \/ /\ rlImpl = "queue"
     /\ \E d \in TimerRange : timers[d] > 0 /\ d + MaxLate <= now

TickLate ==
  /\ now < RLHorizon
  /\ ~TimerOverdue
  /\ now' = now + 1

NextRLFair ==
  \/ TickLate /\ UNCHANGED <<rlVars, cacheVars, mdVars, tokVars, poolVars, layoutVars, ratioVars, extVars, raceVars, ftiVars>>
  \/ \E c \in RLCallers : now <= MaxTime /\ SWAcquire(c) /\ UNCHANGED <<cacheVars, mdVars, tokVars, poolVars, layoutVars, ratioVars, extVars, raceVars, ftiVars>>
  \/ \E c \in RLCallers : SWWake(c) /\ UNCHANGED <<cacheVars, mdVars, tokVars, poolVars, layoutVars, ratioVars, extVars, raceVars, ftiVars>>
  \/ \E c \in RLCallers : now <= MaxTime /\ TBAcquire(c) /\ UNCHANGED <<cacheVars, mdVars, tokVars, poolVars, layoutVars, ratioVars, extVars, raceVars, ftiVars>>
  \/ \E c \in RLCallers : TBWake(c) /\ UNCHANGED <<cacheVars, mdVars, tokVars, poolVars, layoutVars, ratioVars, extVars, raceVars, ftiVars>>
  \/ \E c \in RLCallers : now <= MaxTime /\ QAcquire(c) /\ UNCHANGED <<cacheVars, mdVars, tokVars, poolVars, layoutVars, ratioVars, extVars, raceVars, ftiVars>>
  \/ \E d \in TimerRange : QTimer(d) /\ UNCHANGED <<cacheVars, mdVars, tokVars, poolVars, layoutVars, ratioVars, extVars, raceVars, ftiVars>>

RLOnly == UNCHANGED <<cacheVars, mdVars, tokVars, poolVars, layoutVars, ratioVars, extVars, raceVars, ftiVars>>

TimersFire ==
  /\ WF_vars(TickLate /\ UNCHANGED rlVars /\ RLOnly)
  /\ \A c \in RLCallers : WF_vars(SWWake(c) /\ RLOnly) /\ WF_vars(TBWake(c) /\ RLOnly)
  /\ \A d \in TimerRange : WF_vars(QTimer(d) /\ RLOnly)

SpecRLFair == InitRL /\ [][NextRLFair]_vars /\ TimersFire

(***************************************************************************)
(* C1: in every time interval of length RLInterval, the number of granted  *)
(* acquire() calls of one limiter never exceeds RLLimit.  The interval     *)
(* ending at the time of grant i is the half-open (g_i - W, g_i] that the  *)
(* limiter's own filter "now - t < interval" describes.                    *)
(***************************************************************************)
GrantsInWindowEndingAt(t) ==
  Cardinality({j \in DOMAIN grantLog : t - RLInterval < grantLog[j] /\ grantLog[j] <= t})

C1_RateBound ==
  \A i \in DOMAIN grantLog : GrantsInWindowEndingAt(grantLog[i]) <= RLLimit

(***************************************************************************)
(* The cache on its own: any sequence of set, get and clear as time passes.*)
(***************************************************************************)
InitCache ==
  /\ now = 0
  /\ RLIdle
  /\ CacheInit
  /\ MetaIdle
  /\ TokInit
  /\ PoolInit
  /\ LayoutIdle
  /\ RatioIdle
  /\ ExtInit /\ RaceInit /\ FtiInit

NextCache ==
  \/ Tick /\ UNCHANGED <<rlVars, cacheVars, mdVars, tokVars, poolVars, layoutVars, ratioVars, extVars, raceVars, ftiVars>>
  \/ \E k \in CacheKeys, v \in CacheValues : CacheDoSet(k, v) /\ UNCHANGED <<rlVars, mdVars, tokVars, poolVars, layoutVars, ratioVars, extVars, raceVars, ftiVars>>
  \/ \E k \in CacheKeys : CacheDoGet(k) /\ UNCHANGED <<rlVars, mdVars, tokVars, poolVars, layoutVars, ratioVars, extVars, raceVars, ftiVars>>
  \/ CacheDoClear /\ UNCHANGED <<rlVars, mdVars, tokVars, poolVars, layoutVars, ratioVars, extVars, raceVars, ftiVars>>

SpecCache == InitCache /\ [][NextCache]_vars

(***************************************************************************)
(* C6: get(k) returns the value of the most recent set(k, v) exactly when  *)
(* an entry for k exists and now - storedAt <= ttl (age = ttl still hits); *)
(* otherwise it returns null.                                              *)
(***************************************************************************)
ExpectedGet(k, t) ==
  IF k \in DOMAIN setLog /\ t - setLog[k].at <= CacheTtl THEN setLog[k].value ELSE Null

C6_GetReturnsFreshValue ==
  cacheRet.op = "get" => cacheRet.value = ExpectedGet(cacheRet.key, cacheRet.at)

C6_Witness ==
  /\ cacheRet.op = "get"
  /\ cacheRet.key \in DOMAIN setLog
  /\ cacheRet.at - setLog[cacheRet.key].at = CacheTtl
  /\ cacheRet.value = setLog[cacheRet.key].value
  /\ cacheRet.value # Null

(***************************************************************************)
(* C7: a get(k) issued more than ttl after set(k, v) returns null and      *)
(* removes the entry; an entry disappears only in a get on its own key or  *)
(* in a clear (time passing alone removes nothing); and a later set(k, v2) *)
(* stores v2 with the current time, so that get(k) returns v2 again.       *)
(***************************************************************************)
C7_ExpiredGetEvicts ==
  (/\ cacheRet.op = "get"
   /\ cacheRet.key \in DOMAIN setLog
   /\ cacheRet.at - setLog[cacheRet.key].at > CacheTtl)
  => (cacheRet.value = Null /\ cacheRet.key \notin DOMAIN cache)

C7_SetStoresFresh ==
  cacheRet.op = "set" =>
    /\ cacheRet.key \in DOMAIN cache
    /\ cache[cacheRet.key] = [data |-> cacheRet.value, timestamp |-> cacheRet.at]

C7_GetAfterResetHits ==
  (/\ cacheRet.op = "get"
   /\ cacheRet.key \in evictedKeys
   /\ cacheRet.key \in DOMAIN setLog
   /\ cacheRet.at - setLog[cacheRet.key].at <= CacheTtl)
  => cacheRet.value = setLog[cacheRet.key].value

C7_RemovedOnlyByGetOrClear ==
  \A k \in CacheKeys :
    (k \in DOMAIN cache /\ k \notin DOMAIN cache') =>
      /\ cacheRet'.seq # cacheRet.seq
      /\ \/ cacheRet'.op = "clear"
         \/ cacheRet'.op = "get" /\ cacheRet'.key = k

C7_LazyEviction ==
  /\ [](C7_ExpiredGetEvicts /\ C7_SetStoresFresh /\ C7_GetAfterResetHits)
  /\ [][C7_RemovedOnlyByGetOrClear]_vars

C7_Witness ==
  /\ cacheRet.op = "get"
  /\ cacheRet.key \in evictedKeys
  /\ cacheRet.key \in DOMAIN setLog
  /\ cacheRet.value = setLog[cacheRet.key].value
  /\ cacheRet.value # Null
  /\ cacheRet.at - setLog[cacheRet.key].at = CacheTtl

(***************************************************************************)
(* decodeMetadata on its own.  The buffers are a header, three fields with *)
(* their length prefixes (one of which may declare a wrong length), cut at *)
(* any of a set of lengths that covers the empty buffer, a buffer shorter  *)
(* than the header and every cut inside the fields.                        *)
(***************************************************************************)
RECURSIVE SeqsUpTo(_, _)
SeqsUpTo(S, n) ==
  IF n = 0 THEN {<<>>}
  ELSE LET shorter == SeqsUpTo(S, n - 1)
       IN shorter \cup {Append(q, x) : q \in {r \in shorter : Len(r) = n - 1}, x \in S}

\* "A\0B", " A B\0": names with a NUL or a blank inside.
InteriorNames == {<<65, 0, 66>>, <<32, 65, 32, 66, 0>>}
NameFields == SeqsUpTo({0, 32, 65, 255}, MaxFieldLen) \cup InteriorNames
SymbolFields == SeqsUpTo({0, 65}, MaxFieldLen)
UriFields == SeqsUpTo({32, 65}, MaxFieldLen)
Huge == <<255, 255, 255, 255>>
u32le(n) == <<n % 256, (n \div 256) % 256, (n \div 65536) % 256, (n \div 16777216) % 256>>

Declared(field, lie) ==
  CASE lie = "none" -> u32le(Len(field))
    [] lie = "long" -> u32le(Len(field) + 1)
    [] lie = "short" -> u32le(IF Len(field) > 0 THEN Len(field) - 1 ELSE 0)
    [] lie = "huge" -> Huge

MetaFull(n, s, u, lieAt, lie) ==
  Repeat(0, MetadataHeaderLen)
    \o Declared(n, IF lieAt = 1 THEN lie ELSE "none") \o n
    \o Declared(s, IF lieAt = 2 THEN lie ELSE "none") \o s
    \o Declared(u, IF lieAt = 3 THEN lie ELSE "none") \o u

MetaCuts(full) ==
  {0, 33, MetadataHeaderLen - 1, MetadataHeaderLen}
    \cup ((MetadataHeaderLen + 11)..Len(full))

InitMeta ==
  /\ now = 0
  /\ RLIdle
  /\ CacheInit
  /\ \E n \in NameFields, s \in SymbolFields, u \in UriFields,
        lieAt \in 1..3, lie \in {"none", "long", "short", "huge"} :
       LET full == MetaFull(n, s, u, lieAt, lie)
       IN \E cut \in MetaCuts(full) : mdInput = SubSeq(full, 1, cut)
  /\ mdOut = [state |-> "idle"]
  /\ TokInit
  /\ PoolInit
  /\ LayoutIdle
  /\ RatioIdle
  /\ ExtInit /\ RaceInit /\ FtiInit

MetaDecode ==
  /\ mdOut.state = "idle"
  /\ LET r == decodeMetadata(mdInput)
     IN mdOut' = IF r.threw THEN [state |-> "threw"]
                 ELSE [state |-> "returned", value |-> r.value]
  /\ UNCHANGED <<now, mdInput>>

NextMeta ==
  \/ MetaDecode /\ UNCHANGED <<rlVars, cacheVars, tokVars, poolVars, layoutVars, ratioVars, extVars, raceVars, ftiVars>>

SpecMeta == InitMeta /\ [][NextMeta]_vars

(***************************************************************************)
(* C5: for every buffer decodeMetadata returns (it never throws), and what *)
(* it returns is either the record of the three length-prefixed fields as  *)
(* the layout defines them - each field wholly inside the buffer - or the  *)
(* exact placeholder.                                                      *)
(***************************************************************************)
Clean(bytes) == trim(StripNul(TextDecoder_decode(bytes)))
Bytes(data, from, n) == [i \in 1..n |-> data[from + i]]
U32At(data, at) == U32(data[at + 1], data[at + 2], data[at + 3], data[at + 4])

LayoutRecord(data, rec) ==
  \E n1 \in 0..Len(data) :
    /\ MetadataHeaderLen + 4 + n1 + 4 <= Len(data)
    /\ U32At(data, MetadataHeaderLen) = n1
    /\ \E n2 \in 0..Len(data) :
         /\ MetadataHeaderLen + 4 + n1 + 4 + n2 + 4 <= Len(data)
         /\ U32At(data, MetadataHeaderLen + 4 + n1) = n2
         /\ \E n3 \in 0..Len(data) :
              /\ MetadataHeaderLen + 4 + n1 + 4 + n2 + 4 + n3 <= Len(data)
              /\ U32At(data, MetadataHeaderLen + 4 + n1 + 4 + n2) = n3
              /\ rec.name = Clean(Bytes(data, MetadataHeaderLen + 4, n1))
              /\ rec.symbol = Clean(Bytes(data, MetadataHeaderLen + 4 + n1 + 4, n2))
              /\ rec.uri = Clean(Bytes(data, MetadataHeaderLen + 4 + n1 + 4 + n2 + 4, n3))
              /\ rec.description = rec.uri

InitToken ==
  /\ now = 0
  /\ RLIdle
  /\ CacheInit
  /\ MetaIdle
  /\ TokInit
  /\ PoolInit
  /\ LayoutIdle
  /\ RatioIdle
  /\ ExtInit /\ RaceInit /\ FtiInit

NextToken ==
  \/ Tick /\ UNCHANGED <<rlVars, cacheVars, mdVars, tokVars, poolVars, layoutVars, ratioVars, extVars, raceVars, ftiVars>>
  \/ \E a \in TokAddresses : TokGetTokenInfo(a) /\ UNCHANGED <<rlVars, cacheVars, mdVars, poolVars, layoutVars, ratioVars, extVars, raceVars, ftiVars>>
  \/ \E a \in TokAddresses : TokTokenExists(a) /\ UNCHANGED <<rlVars, cacheVars, mdVars, poolVars, layoutVars, ratioVars, extVars, raceVars, ftiVars>>
  \/ \E a \in TokAddresses : TokGetTokenMetadata(a) /\ UNCHANGED <<rlVars, cacheVars, mdVars, poolVars, layoutVars, ratioVars, extVars, raceVars, ftiVars>>
  \/ \E r \in TokenListResponses : TokTokenListResponse(r) /\ UNCHANGED <<rlVars, cacheVars, mdVars, poolVars, layoutVars, ratioVars, extVars, raceVars, ftiVars>>
  \/ \E r \in MintResponses : TokMintResponse(r) /\ UNCHANGED <<rlVars, cacheVars, mdVars, poolVars, layoutVars, ratioVars, extVars, raceVars, ftiVars>>
  \/ \E r \in MetadataAccountResponses :
       TokMetadataAccountResponse(r) /\ UNCHANGED <<rlVars, cacheVars, mdVars, poolVars, layoutVars, ratioVars, extVars, raceVars, ftiVars>>

SpecToken == InitToken /\ [][NextToken]_vars

TokFinished == tokCall.pc = "done" /\ tokCall.op = "getTokenInfo"

(***************************************************************************)
(* C2: getTokenInfo never fails for a syntactically valid address; when    *)
(* the address is not in the token list and the on-chain resolution fails, *)
(* it returns the placeholder: symbol "UNKNOWN", decimals 9 and the name   *)
(* "Unknown Token (<first 8 characters of the address>...)".               *)
(***************************************************************************)
First8(address) == [i \in 1..Min(8, Len(address)) |-> address[i]]

C3_InvalidAddressRejected ==
  (TokFinished /\ ~validateTokenAddress(tokCall.address)) =>
    /\ tokCall.result.kind = "error"
    /\ \E i \in DOMAIN tokCall.result.message : tokCall.result.message[i] = "Invalid token address"

(***************************************************************************)
(* C8: within a getTokenInfo call the token-info cache is looked up before *)
(* any network call, and a call that hits the cache makes no network call. *)
(***************************************************************************)
NetworkEvents == {"fetch tokenList", "rpc getMint", "rpc getAccountInfo"}

C8_CacheBeforeNetwork ==
  \A i \in DOMAIN tokCall.trace :
    tokCall.trace[i] \in NetworkEvents =>
      /\ \E j \in 1..(i - 1) : tokCall.trace[j] = "tokenInfoCache.get miss"
      /\ \A j \in DOMAIN tokCall.trace : tokCall.trace[j] # "tokenInfoCache.get hit"

(***************************************************************************)
(* PoolService on its own: its five public methods, one call at a time,    *)
(* against every answer of the network, as time passes.                    *)
(***************************************************************************)
InitPool ==
  /\ now = 0
  /\ RLIdle
  /\ CacheInit
  /\ MetaIdle
  /\ TokInit
  /\ PoolInit
  /\ LayoutIdle
  /\ RatioIdle
  /\ ExtInit /\ RaceInit /\ FtiInit

NextPool ==
  \/ Tick /\ UNCHANGED <<rlVars, cacheVars, mdVars, tokVars, poolVars, layoutVars, ratioVars, extVars, raceVars, ftiVars>>
  \/ \E op \in PoolOps, a \in PoolAddresses :
       PoolCall(op, a) /\ UNCHANGED <<rlVars, cacheVars, mdVars, tokVars, layoutVars, ratioVars, extVars, raceVars, ftiVars>>
  \/ \E r \in AccountResponses :
       PoolInfoAccountResponse(r) /\ UNCHANGED <<rlVars, cacheVars, mdVars, tokVars, layoutVars, ratioVars, extVars, raceVars, ftiVars>>
  \/ \E r \in AccountResponses :
       PoolPairAccountResponse(r) /\ UNCHANGED <<rlVars, cacheVars, mdVars, tokVars, layoutVars, ratioVars, extVars, raceVars, ftiVars>>
  \/ PoolTokenLegsResponse /\ UNCHANGED <<rlVars, cacheVars, mdVars, tokVars, layoutVars, ratioVars, extVars, raceVars, ftiVars>>
  \/ \E r \in AccountResponses :
       PoolAbiAccountResponse(r) /\ UNCHANGED <<rlVars, cacheVars, mdVars, tokVars, layoutVars, ratioVars, extVars, raceVars, ftiVars>>
  \/ \E b, q \in BalanceResponses :
       PoolBalancesResponse(b, q) /\ UNCHANGED <<rlVars, cacheVars, mdVars, tokVars, layoutVars, ratioVars, extVars, raceVars, ftiVars>>

SpecPool == InitPool /\ [][NextPool]_vars

PoolFinished == pool.pc = "done"
PoolErrorContains(part) ==
  /\ pool.result.kind = "error"
  /\ \E i \in DOMAIN pool.result.message : pool.result.message[i] = part
PoolFetchedSome(outcome) == \E i \in DOMAIN pool.fetched : pool.fetched[i].outcome = outcome

(***************************************************************************)
(* C4: in every PoolService operation that fetches a pool account, the     *)
(* pool-state decoder is never invoked on data of an account whose owner   *)
(* is not the AMM program id; such an account makes the operation fail     *)
(* with 'Not a valid Raydium V4 pool' before any decode.                   *)
(***************************************************************************)
C4_NoDecodeOfForeignAccount ==
  /\ \A i \in DOMAIN pool.decodes : pool.decodes[i] = RAYDIUM_V4_PROGRAM_ID.key
  /\ (PoolFinished /\ PoolFetchedSome("foreign")) =>
       PoolErrorContains("Not a valid Raydium V4 pool")

(***************************************************************************)
(* C9: getPoolInfo looks the address up in the pool-info cache before any  *)
(* network call, and once getPoolInfo has fetched a PoolInfo for an        *)
(* address, a getPoolInfo of that address started no more than the TTL     *)
(* later returns that same PoolInfo and makes no network call.             *)
(***************************************************************************)
PoolNetworkEvents ==
  {"rpc getAccountInfo", "rpc getTokenAccountBalance", "tokenService.getTokenInfo"}

PoolRepeatedInTime ==
  /\ pool.op = "getPoolInfo"
  /\ pool.pc # "idle"
  /\ pool.address \in DOMAIN lastPoolInfo
  /\ lastPoolInfo[pool.address].call < pool.calls
  /\ pool.startedAt - lastPoolInfo[pool.address].at <= PoolInfoTtl

C9_PoolInfoCachedBeforeNetwork ==
  /\ (pool.op = "getPoolInfo" /\ pool.trace # <<>>) => pool.trace[1] = "poolInfoCache.get"
  /\ PoolRepeatedInTime =>
       /\ PoolFinished
       /\ pool.result = [kind |-> "ok", value |-> lastPoolInfo[pool.address].value]
       /\ \A i \in DOMAIN pool.trace : pool.trace[i] \notin PoolNetworkEvents

C9_Witness ==
  /\ PoolRepeatedInTime
  /\ pool.calls = 2
  /\ pool.startedAt - lastPoolInfo[pool.address].at = PoolInfoTtl
  /\ pool.result.kind = "ok"

(***************************************************************************)
(* C10: when the account fetch for a well-formed pool address answers      *)
(* that the account is absent, getPoolInfo, getPoolTokenPair and           *)
(* getContractABI fail with a message that contains 'Pool not found'.      *)
(***************************************************************************)
C10_AbsentAccountIsPoolNotFound ==
  (/\ PoolFinished
   /\ pool.op \in {"getPoolInfo", "getPoolTokenPair", "getContractABI"}
   /\ validatePoolAddress(pool.address)
   /\ PoolFetchedSome("absent")) =>
    PoolErrorContains("Pool not found")

(***************************************************************************)
(* C11: getPoolInfo with a malformed address fails with 'Invalid pool      *)
(* address' before any network call is issued and leaves no cache entry    *)
(* for the address; no placeholder is returned in its place.               *)
(***************************************************************************)
PoolMalformed(address) == PublicKey_new(address).threw

C11_MalformedPoolAddressFailsFast ==
  (pool.op = "getPoolInfo" /\ pool.pc # "idle" /\ PoolMalformed(pool.address)) =>
    /\ PoolFinished
    /\ PoolErrorContains("Invalid pool address")
    /\ \A i \in DOMAIN pool.trace : pool.trace[i] \notin PoolNetworkEvents
    /\ pool.address \notin DOMAIN poolInfoCache
    /\ pool.address \notin DOMAIN tokenPairCache
    /\ pool.address \notin DOMAIN abiCache

C11_Witness ==
  /\ pool.op = "getPoolInfo"
  /\ PoolFinished
  /\ PoolMalformed(pool.address)
  /\ pool.result.kind = "error"
  /\ pool.calls = 2

(***************************************************************************)
(* C12: when the data of a pool account owned by the AMM program is        *)
(* shorter than the pool-state layout, getPoolInfo fails with a decode     *)
(* error: it returns no PoolInfo and caches none.                          *)
(***************************************************************************)
PoolInfoFetchedShortData ==
  /\ pool.op = "getPoolInfo"
  /\ \E i \in DOMAIN pool.fetched :
       /\ pool.fetched[i].stage = "info"
       /\ pool.fetched[i].outcome = "amm"
       /\ pool.fetched[i].dataLength < PoolStateSpan

C12_ShortPoolDataIsDecodeError ==
  PoolInfoFetchedShortData =>
    /\ pool.address \notin DOMAIN poolInfoCache
    /\ PoolFinished => pool.result.kind = "error"

(***************************************************************************)
(* The pool-state decoder on its own: a record is serialized in the field  *)
(* order of the account and its bytes are decoded.                         *)
(***************************************************************************)
LayoutKeys == {KnownKeys[a].key : a \in {USDC_MINT, WSOL_MINT, SYSTEM_PROGRAM_STR}}
LayoutU64s == {<<0, 0, 0, 0, 0, 0, 0, 0>>, <<64, 66, 15, 0, 0, 0, 0, 1>>}

InitLayout ==
  /\ now = 0
  /\ RLIdle
  /\ CacheInit
  /\ MetaIdle
  /\ TokInit
  /\ PoolInit
  /\ RatioIdle
  /\ ExtInit /\ RaceInit /\ FtiInit
  /\ plOut = [state |-> "idle"]
  /\ \E version \in {0, 4}, isInitialized \in {0, 1}, nonce \in {0, 254},
        ammId \in LayoutKeys, baseTokenMint \in LayoutKeys, quoteTokenMint \in LayoutKeys,
        openTime \in LayoutU64s, lpSupply \in LayoutU64s :
       plRecord = [version |-> version, isInitialized |-> isInitialized, nonce |-> nonce,
                   ammId |-> ammId, baseTokenMint |-> baseTokenMint,
                   quoteTokenMint |-> quoteTokenMint,
                   lpTokenMint |-> KnownKeys[POOL_ADDRESS].key,
                   baseVault |-> KnownKeys[SYSTEM_PROGRAM_STR].key,
                   quoteVault |-> KnownKeys[RAYDIUM_V4_PROGRAM_ID_STR].key,
                   authority |-> KnownKeys[USDC_MINT].key,
                   openTime |-> openTime, lpSupply |-> lpSupply]

LayoutDecode ==
  /\ plOut.state = "idle"
  /\ LET d == decodePoolData(SerializePoolState(plRecord))
     IN plOut' = IF d.threw THEN [state |-> "threw"]
                 ELSE [state |-> "decoded", value |-> d.value]
  /\ UNCHANGED <<now, plRecord>>

NextLayout ==
  \/ LayoutDecode /\ UNCHANGED <<rlVars, cacheVars, mdVars, tokVars, poolVars, ratioVars, extVars, raceVars, ftiVars>>

SpecLayout == InitLayout /\ [][NextLayout]_vars

(***************************************************************************)
(* C13: decoding the bytes of a record serialized in the field order       *)
(* version, isInitialized, nonce, ammId, baseTokenMint, ..., authority,    *)
(* openTime, lpSupply yields the values of the record for the fields       *)
(* through lpSupply: the nonce is byte 2 and baseTokenMint bytes 35..66.   *)
(***************************************************************************)
RoundTripFields ==
  {"nonce", "baseTokenMint", "quoteTokenMint", "lpTokenMint", "baseVault", "quoteVault",
   "authority", "openTime", "lpSupply"}

C13_PoolStateRoundTrip ==
  plOut.state # "idle" =>
    /\ plOut.state = "decoded"
    /\ \A f \in RoundTripFields : plOut.value[f] = plRecord[f]
    /\ plOut.value.nonce = SerializePoolState(plRecord)[2 + 1]
    /\ plOut.value.baseTokenMint = SubSeq(SerializePoolState(plRecord), 35 + 1, 66 + 1)

(***************************************************************************)
(* C14: grants are issued in arrival order.  In every step in which        *)
(* acquire() returns to some caller, the pending callers that are served   *)
(* are the ones that arrived first (a prefix of the arrival order), and a  *)
(* caller that has only just arrived is served only if no caller that      *)
(* arrived before it is left waiting.  The grant itself shows that         *)
(* capacity was available at that moment.                                  *)
(***************************************************************************)
GrantsInStep == Len(grantLog') - Len(grantLog)

ServedWaiters == {c \in SeqRange(arrivals) : c \notin SeqRange(arrivals')}

LeftWaiting == {c \in SeqRange(arrivals) : c \in SeqRange(arrivals')}

ArrivalOrderStep ==
  GrantsInStep > 0 =>
    /\ \A i, j \in DOMAIN arrivals :
         (i < j /\ arrivals[j] \in ServedWaiters) => arrivals[i] \in ServedWaiters
    /\ GrantsInStep > Cardinality(ServedWaiters) => LeftWaiting = {}

C14_GrantsInArrivalOrder == [][ArrivalOrderStep]_vars

(***************************************************************************)
(* C15: acquire() never throws and eventually returns.  A call is either   *)
(* pending or has returned, there is no failed outcome; and, timers        *)
(* firing, every caller whose acquire() is pending is eventually granted,  *)
(* however many callers are pending with it.                               *)
(***************************************************************************)
C15_AcquireEventuallyReturns ==
  /\ [](\A c \in RLCallers : rlPc[c] \in {"idle", "waiting"})
  /\ \A c \in RLCallers : (c \in SeqRange(arrivals)) ~> (c \notin SeqRange(arrivals))

C15_Witness ==
  /\ rlImpl = "queue"
  /\ arrivals = <<>>
  /\ Len(grantLog) = MaxGrants
  /\ grantLog[MaxGrants] > MaxTime

(***************************************************************************)
(* C16: every TokenInfo that getTokenInfo returns has its metadata field   *)
(* present; in particular a token resolved on-chain for which no metadata  *)
(* is available carries a placeholder TokenMetadata, not undefined.        *)
(***************************************************************************)
C16_MetadataAlwaysPresent ==
  (TokFinished /\ tokCall.result.kind = "ok") =>
    /\ "metadata" \in DOMAIN tokCall.result.value
    /\ tokCall.result.value.metadata # Undefined
    /\ tokCall.result.value.metadata # Null

(***************************************************************************)
(* C17: when getTokenInfo resolves a token on-chain and the mint fetch     *)
(* succeeds, the returned decimals are the decimals of the fetched mint    *)
(* and the returned supply is the mint's supply written in decimal digits, *)
(* whether or not metadata was found for the mint.                         *)
(***************************************************************************)
IsDecimalString(str) ==
  /\ Len(str) >= 1
  /\ \A i \in DOMAIN str : str[i] \in 48..57
  /\ Len(str) > 1 => str[1] # 48

C17_MintDecimalsAndSupplySurfaced ==
  (TokFinished /\ tokCall.mintOk = "ok") =>
    /\ tokCall.result.kind = "ok"
    /\ tokCall.result.value.decimals = tokCall.mint.decimals
    /\ tokCall.result.value.supply # Undefined
    /\ IsDecimalString(tokCall.result.value.supply.str)
    /\ ParseNumber(tokCall.result.value.supply.str) = tokCall.mint.supply

C17_Witness ==
  /\ TokFinished
  /\ tokCall.mintOk = "ok"
  /\ tokCall.address = USDC_MINT
  /\ tokCall.mint.decimals = 6
  /\ tokCall.result.value.decimals = 6
  /\ tokCall.result.value.metadata = Undefined

(***************************************************************************)
(* C18: getTokenMetadata never raises an error, and it returns null when   *)
(* the derived metadata account does not exist or when fetching it fails.  *)
(***************************************************************************)
MetadataCallFinished == tokCall.pc = "done" /\ tokCall.op = "getTokenMetadata"

C18_MissingMetadataIsNull ==
  MetadataCallFinished =>
    /\ tokCall.result.kind = "ok"
    /\ tokCall.metaAccount \in {"absent", "failed"} => tokCall.result.value = Null

C18_Witness ==
  /\ MetadataCallFinished
  /\ tokCall.metaAccount = "absent"
  /\ tokCall.result = [kind |-> "ok", value |-> Null]
  /\ tokCall.calls = 2

(***************************************************************************)
(* C19: while getPoolInfo assembles a PoolInfo, the failure of one token   *)
(* leg does not fail the call and does not touch the other leg: the pair   *)
(* is assembled with the default placeholder (symbol "UNKNOWN", decimals   *)
(* 9, the leg's own mint address) for the failed leg and the resolved      *)
(* token (decimals and supply of its mint) for the other, no error of the  *)
(* call comes from the token pair, and a PoolInfo that is returned carries *)
(* exactly those two legs.                                                 *)
(***************************************************************************)
LegIsPlaceholder(token, mint) ==
  /\ token.address = PublicKeyToString(mint)
  /\ token.symbol = Str_UNKNOWN
  /\ token.decimals = 9

LegIsResolved(token, mint, resp) ==
  /\ token.address = PublicKeyToString(mint)
  /\ token.decimals = resp.mint.decimals
  /\ token.supply # Undefined
  /\ ParseNumber(token.supply.str) = resp.mint.supply

LegAsAnswered(token, mint, resp) ==
  IF resp.ok THEN LegIsResolved(token, mint, resp) ELSE LegIsPlaceholder(token, mint)

OneLegFailed ==
  /\ pool.op = "getPoolInfo"
  /\ Len(pool.legs) = 2
  /\ pool.legs[1].ok # pool.legs[2].ok

C19_FailedLegDegradesToPlaceholder ==
  OneLegFailed =>
    /\ ~PoolErrorContains("Failed to get pool token pair")
    /\ pool.tokenPair # Null
    /\ LegAsAnswered(pool.tokenPair.baseToken, pool.pairData.baseTokenMint, pool.legs[1])
    /\ LegAsAnswered(pool.tokenPair.quoteToken, pool.pairData.quoteTokenMint, pool.legs[2])
    /\ (PoolFinished /\ pool.result.kind = "ok") =>
         /\ pool.result.value.baseToken = pool.tokenPair.baseToken
         /\ pool.result.value.quoteToken = pool.tokenPair.quoteToken

C19_Witness ==
  /\ OneLegFailed
  /\ PoolFinished
  /\ pool.result.kind = "ok"
  /\ ~pool.legs[1].ok
  /\ pool.result.value.baseToken.symbol = Str_UNKNOWN
  /\ pool.result.value.quoteToken.decimals = 6

(***************************************************************************)
(* C20: every successful getPoolLiquidity call has, in that same call,     *)
(* requested the token-account balance of the base vault and of the quote  *)
(* vault of the pool, once each, and returns exactly the amounts and the   *)
(* decimals that were answered; nothing is taken from a cache or from      *)
(* fixed values.                                                           *)
(***************************************************************************)
BalanceRequests ==
  Cardinality({i \in DOMAIN pool.trace : pool.trace[i] = "rpc getTokenAccountBalance"})

LiquidityReturned ==
  pool.op = "getPoolLiquidity" /\ PoolFinished /\ pool.result.kind = "ok"

RatioAmounts == {0, 1, 3, 40, 250}
RatioDecimals == {0, 1, 2}

\* base 2,000,000,000 with 9 decimals, quote 4,000,000 with 6 decimals
RatioScenario ==
  [baseTokenAmount |-> DecimalString(2000000000), baseTokenDecimals |-> 9,
   quoteTokenAmount |-> DecimalString(4000000), quoteTokenDecimals |-> 6]

RatioInputs ==
  {[baseTokenAmount |-> DecimalString(b), baseTokenDecimals |-> bd,
    quoteTokenAmount |-> DecimalString(q), quoteTokenDecimals |-> qd] :
     b \in RatioAmounts, bd \in RatioDecimals, q \in RatioAmounts, qd \in RatioDecimals}
    \cup {RatioScenario}

InitRatio ==
  /\ now = 0
  /\ RLIdle
  /\ CacheInit
  /\ MetaIdle
  /\ TokInit
  /\ PoolInit
  /\ LayoutIdle
  /\ ExtInit /\ RaceInit /\ FtiInit
  /\ prLiquidity \in RatioInputs
  /\ prOut = [state |-> "idle"]

RatioCompute ==
  /\ prOut.state = "idle"
  /\ prOut' = [state |-> "returned", value |-> getPriceRatio(prLiquidity)]
  /\ UNCHANGED <<now, prLiquidity>>

NextRatio ==
  \/ RatioCompute /\ UNCHANGED <<rlVars, cacheVars, mdVars, tokVars, poolVars, layoutVars, extVars, raceVars, ftiVars>>

SpecRatio == InitRatio /\ [][NextRatio]_vars

RatioReturned == prOut.state = "returned"
RatioBase == ParseNumber(prLiquidity.baseTokenAmount)
RatioQuote == ParseNumber(prLiquidity.quoteTokenAmount)

(***************************************************************************)
(* C21: for nonzero amounts, baseToQuote is (quote / 10^quoteDecimals) /   *)
(* (base / 10^baseDecimals) and quoteToBase is (base / 10^baseDecimals) /  *)
(* (quote / 10^quoteDecimals); for base 2,000,000,000 with 9 decimals and  *)
(* quote 4,000,000 with 6 decimals they are 2 and 0.5.  The equalities     *)
(* between fractions are stated by cross-multiplication.                   *)
(***************************************************************************)
C21_PriceRatioFormula ==
  RatioReturned =>
    /\ (prLiquidity # RatioScenario /\ RatioBase # 0 /\ RatioQuote # 0) =>
         LET bd == 10 ^ prLiquidity.baseTokenDecimals
             qd == 10 ^ prLiquidity.quoteTokenDecimals
             r == prOut.value
         IN /\ r.baseToQuote.kind = "number" /\ r.quoteToBase.kind = "number"
            /\ r.baseToQuote.num * (qd * RatioBase) = r.baseToQuote.den * (RatioQuote * bd)
            /\ r.quoteToBase.num * (bd * RatioQuote) = r.quoteToBase.den * (RatioBase * qd)
    /\ prLiquidity = RatioScenario =>
         /\ prOut.value.baseToQuote = [kind |-> "number", num |-> 2, den |-> 1]
         /\ prOut.value.quoteToBase = [kind |-> "number", num |-> 1, den |-> 2]

C21_Witness ==
  /\ RatioReturned
  /\ prLiquidity = RatioScenario
  /\ prOut.value.baseToQuote.num = 2

(***************************************************************************)
(* C22: for nonzero base and quote amounts and any decimals, the two       *)
(* returned ratios are inverse to each other: baseToQuote * quoteToBase    *)
(* is 1.                                                                   *)
(***************************************************************************)
C22_PriceRatioInverseLaw ==
  (RatioReturned /\ RatioBase # 0 /\ RatioQuote # 0) =>
    /\ prOut.value.baseToQuote.kind = "number"
    /\ prOut.value.quoteToBase.kind = "number"
    /\ prOut.value.baseToQuote.num * prOut.value.quoteToBase.num =
         prOut.value.baseToQuote.den * prOut.value.quoteToBase.den

C22_Witness ==
  /\ RatioReturned
  /\ RatioBase = 3 /\ prLiquidity.baseTokenDecimals = 2
  /\ RatioQuote = 40 /\ prLiquidity.quoteTokenDecimals = 0
  /\ prOut.value.baseToQuote = [kind |-> "number", num |-> 4000, den |-> 3]

(***************************************************************************)
(* C23: when both balances were fetched and a vault amount is zero,        *)
(* getPriceRatio does not fail.  With a zero base amount baseToQuote is    *)
(* Infinity and quoteToBase is 0, with a zero quote amount it is the other *)
(* way round, and with both zero both ratios are NaN.                      *)
(***************************************************************************)
PriceBalancesFetched == pool.op = "getPriceRatio" /\ Len(pool.balances) = 2

PriceBase == ParseNumber(pool.balances[1].value.amount)
PriceQuote == ParseNumber(pool.balances[2].value.amount)
Zero == [kind |-> "number", num |-> 0, den |-> 1]

C23_ZeroAmountGivesInfinityOrNaN ==
  (PriceBalancesFetched /\ (PriceBase = 0 \/ PriceQuote = 0)) =>
    /\ PoolFinished
    /\ pool.result.kind = "ok"
    /\ (PriceBase = 0 /\ PriceQuote # 0) =>
         /\ pool.result.value.baseToQuote.kind = "Infinity"
         /\ pool.result.value.quoteToBase = Zero
    /\ (PriceBase # 0 /\ PriceQuote = 0) =>
         /\ pool.result.value.baseToQuote = Zero
         /\ pool.result.value.quoteToBase.kind = "Infinity"
    /\ (PriceBase = 0 /\ PriceQuote = 0) =>
         /\ pool.result.value.baseToQuote.kind = "NaN"
         /\ pool.result.value.quoteToBase.kind = "NaN"

C23_Witness ==
  /\ PriceBalancesFetched
  /\ PriceBase = 0 /\ PriceQuote = 1500
  /\ pool.result.kind = "ok"
  /\ pool.result.value.baseToQuote.kind = "Infinity"

(***************************************************************************)
(* getPoolWithExtendedInfo and getPoolInfo on one service: calls of both,  *)
(* one after the other, with every outcome of what they await.             *)
(***************************************************************************)
InitExt ==
  /\ now = 0
  /\ RLIdle
  /\ CacheInit
  /\ MetaIdle
  /\ TokInit
  /\ PoolInit
  /\ LayoutIdle
  /\ RatioIdle
  /\ extHeap = <<>>
  /\ extCache = 0
  /\ ext = ExtIdle
  /\ RaceInit
  /\ FtiInit

NextExt ==
  \/ \E op \in ExtOps, o \in ExtOptions :
       ExtCall(op, o) /\ UNCHANGED <<rlVars, cacheVars, mdVars, tokVars, poolVars, layoutVars, ratioVars, raceVars, ftiVars>>
  \/ \E o \in ExtInfoOutcomes :
       ExtInfoResponse(o) /\ UNCHANGED <<rlVars, cacheVars, mdVars, tokVars, poolVars, layoutVars, ratioVars, raceVars, ftiVars>>
  \/ \E o \in ExtLiquidityOutcomes :
       ExtLiquidityResponse(o) /\ UNCHANGED <<rlVars, cacheVars, mdVars, tokVars, poolVars, layoutVars, ratioVars, raceVars, ftiVars>>
  \/ \E o \in ExtPriceOutcomes :
       ExtPriceResponse(o) /\ UNCHANGED <<rlVars, cacheVars, mdVars, tokVars, poolVars, layoutVars, ratioVars, raceVars, ftiVars>>

SpecExt == InitExt /\ [][NextExt]_vars

ExtFinished == ext.pc = "done" /\ ext.op = "getPoolWithExtendedInfo"
ExtReturned == extHeap[ext.result.ref]
ExtGot(outcome) == IF outcome = Null THEN FALSE ELSE outcome.ok

(***************************************************************************)
(* C24: once its getPoolInfo has succeeded, getPoolWithExtendedInfo        *)
(* returns successfully, with every base PoolInfo field as getPoolInfo     *)
(* gave it; liquidity is present exactly when it was requested and its     *)
(* fetch succeeded, price exactly when it was requested and its            *)
(* computation succeeded, each independently of the other.                 *)
(***************************************************************************)
C24_AugmentationFailureOmitsField ==
  (ExtFinished /\ ext.info # Null) =>
    /\ ext.result.kind = "ok"
    /\ \A f \in DOMAIN ext.info : f \in DOMAIN ExtReturned /\ ExtReturned[f] = ext.info[f]
    /\ DOMAIN ExtReturned \subseteq DOMAIN ext.info \cup {"liquidity", "price"}
    /\ "liquidity" \in DOMAIN ExtReturned <=> ExtGot(ext.liquidity)
    /\ "price" \in DOMAIN ExtReturned <=> ExtGot(ext.price)
    /\ ExtGot(ext.liquidity) => ExtReturned.liquidity = ext.liquidity.value
    /\ ExtGot(ext.price) => ExtReturned.price = ext.price.value
    /\ ext.options.withLiquidity <=> ext.liquidity # Null
    /\ ext.options.withPrice <=> ext.price # Null

C24_Witness ==
  /\ ExtFinished
  /\ ext.result.kind = "ok"
  /\ ext.options.withLiquidity /\ ext.options.withPrice
  /\ ~ExtGot(ext.liquidity)
  /\ ExtGot(ext.price)
  /\ "price" \in DOMAIN ExtReturned
  /\ "liquidity" \notin DOMAIN ExtReturned

ExtCarries(ref, field) == field \in DOMAIN extHeap[ref]
ExtInfoReturned == ext.pc = "done" /\ ext.op = "getPoolInfo" /\ ext.result.kind = "ok"

(***************************************************************************)
(* C25: what getPoolInfo returns, a cache hit after an extended call       *)
(* included, and the record the pool-info cache holds never carry          *)
(* liquidity or price; what getPoolWithExtendedInfo returns carries        *)
(* liquidity only if withLiquidity was set and price only if withPrice     *)
(* was set.                                                                *)
(***************************************************************************)
C25_OnlyExtendedCallsCarryExtras ==
  /\ ExtInfoReturned =>
       ~ExtCarries(ext.result.ref, "liquidity") /\ ~ExtCarries(ext.result.ref, "price")
  /\ extCache # 0 => ~ExtCarries(extCache, "liquidity") /\ ~ExtCarries(extCache, "price")
  /\ (ExtFinished /\ ext.result.kind = "ok") =>
       /\ ExtCarries(ext.result.ref, "liquidity") => ext.options.withLiquidity
       /\ ExtCarries(ext.result.ref, "price") => ext.options.withPrice
  /\ ext.pc \in {"idle", "awaitInfo", "done"} =>
       \A ref \in DOMAIN extHeap :
         (ExtCarries(ref, "liquidity") \/ ExtCarries(ref, "price")) => ref # extCache

C25_Witness ==
  /\ ExtInfoReturned
  /\ ext.result.ref = extCache
  /\ \E ref \in DOMAIN extHeap :
       /\ ExtCarries(ref, "liquidity") /\ ExtCarries(ref, "price")
       /\ \A f \in DOMAIN extHeap[extCache] : extHeap[ref][f] = extHeap[extCache][f]

(***************************************************************************)
(* C26: getTokenInfo with a well-formed address whose on-chain account is  *)
(* absent (the mint fetch finds no account) fails with a 'Token not found' *)
(* error.                                                                  *)
(***************************************************************************)
TokAccountAbsent ==
  /\ TokFinished
  /\ validateTokenAddress(tokCall.address)
  /\ ~tokCall.listFound
  /\ tokCall.mintOk = "failed"

C26_AbsentAccountRejected ==
  TokAccountAbsent =>
    /\ tokCall.result.kind = "error"
    /\ \E i \in DOMAIN tokCall.result.message : tokCall.result.message[i] = "Token not found"

(***************************************************************************)
(* C27: tokenExists returns true if and only if the token exists, that is  *)
(* the address was resolved from the token list or its mint was fetched;   *)
(* it returns false when the mint cannot be fetched, malformed addresses   *)
(* included.                                                               *)
(***************************************************************************)
TokExistsFinished == tokCall.pc = "done" /\ tokCall.op = "tokenExists"

C27_TokenExistsIffMintFetched ==
  TokExistsFinished =>
    /\ tokCall.result.kind = "ok"
    /\ tokCall.result.value = TRUE <=> (tokCall.listFound \/ tokCall.mintOk = "ok")

(***************************************************************************)
(* C28: every RPC call made while a TokenService operation is served (the  *)
(* mint fetch, getAccountInfo) comes immediately after a successful        *)
(* RateLimiter.acquire() of its own on the shared limiter.                 *)
(***************************************************************************)
RpcEvents == {"rpc getMint", "rpc getAccountInfo", "rpc getTokenAccountBalance"}

C28_RpcCallsPrecededByAcquire ==
  \A i \in DOMAIN tokCall.trace :
    tokCall.trace[i] \in RpcEvents =>
      /\ i > 1
      /\ tokCall.trace[i - 1] = "rateLimiter.acquire"

(***************************************************************************)
(* C29: a getTokenInfo that found its address in the token list has put    *)
(* the TokenInfo it returned into the token-info cache, so the next        *)
(* getTokenInfo for the same address, made while the entry is fresh,       *)
(* fetches no token list.  The clock of the model stays far below the 300  *)
(* seconds of the entry's life.                                            *)
(***************************************************************************)
ListHitThenSameCall ==
  /\ TokFinished
  /\ tokCall.listFound
  /\ tokCall'.op = "getTokenInfo"
  /\ tokCall'.calls = tokCall.calls + 1
  /\ tokCall'.address = tokCall.address

ListHitIsCached ==
  /\ tokCall.address \in DOMAIN tokenInfoCache
  /\ tokenInfoCache[tokCall.address].data = tokCall.result.value
  /\ \A i \in DOMAIN tokCall'.trace : tokCall'.trace[i] # "fetch tokenList"

C29_ListHitServedFromCache == [][ListHitThenSameCall => ListHitIsCached]_vars

(***************************************************************************)
(* C30: when the token-list fetch fails, getTokenInfo goes on as if the    *)
(* address were not listed: for an address that is a public key the mint   *)
(* is fetched next, and when the on-chain resolution succeeds its result   *)
(* (the mint's decimals and supply) is returned, not the placeholder.      *)
(***************************************************************************)
TokListFailed == tokCall.op = "getTokenInfo" /\ tokCall.listOk = "failed"

C30_ListFailureFallsBackToChain ==
  TokListFailed =>
    /\ ~tokCall.listFound
    /\ ~PublicKey_new(tokCall.address).threw =>
         Len(tokCall.trace) >= 2 /\ tokCall.trace[2] = "rpc getMint"
    /\ (tokCall.pc = "done" /\ tokCall.mintOk = "ok") =>
         /\ tokCall.result.kind = "ok"
         /\ tokCall.result.value.decimals = tokCall.mint.decimals
         /\ tokCall.result.value.supply = [str |-> DecimalString(tokCall.mint.supply)]
         /\ tokCall.result.value # getDefaultTokenInfo(tokCall.address)

C30_Witness ==
  /\ TokListFailed
  /\ tokCall.pc = "done"
  /\ tokCall.mintOk = "ok"
  /\ tokCall.result.kind = "ok"
  /\ tokCall.result.value.decimals = 6
  /\ tokCall.result.value.symbol # Str_UNKNOWN

(***************************************************************************)
(* C31: once the metadata cache holds a metadata record for an address, a  *)
(* getTokenMetadata for that address made no later than the entry's life   *)
(* returns that record at once, with no account fetch (and so no derived   *)
(* address to fetch); and a step that writes the metadata cache leaves     *)
(* the token-info cache as it was.                                         *)
(***************************************************************************)
MetadataCallStep(a) ==
  /\ tokCall'.op = "getTokenMetadata"
  /\ tokCall'.calls = tokCall.calls + 1
  /\ tokCall'.address = a

FreshMetadataRecord(a) ==
  /\ a \in DOMAIN metadataCache
  /\ metadataCache[a].data # Null
  /\ now - metadataCache[a].timestamp <= MetadataTtl

ServedFromMetadataCache(a) ==
  /\ tokCall'.pc = "done"
  /\ tokCall'.result = [kind |-> "ok", value |-> metadataCache[a].data]
  /\ \A i \in DOMAIN tokCall'.trace : tokCall'.trace[i] \notin RpcEvents
  /\ metadataCache' = metadataCache

MetadataCachedStep ==
  /\ \A a \in TokAddresses :
       (MetadataCallStep(a) /\ FreshMetadataRecord(a)) => ServedFromMetadataCache(a)
  /\ metadataCache' # metadataCache => tokenInfoCache' = tokenInfoCache

C31_MetadataServedFromCache == [][MetadataCachedStep]_vars

C31_Witness ==
  /\ tokCall.op = "getTokenMetadata"
  /\ tokCall.pc = "done"
  /\ tokCall.calls = 2
  /\ tokCall.trace = <<"metadataCache.get">>
  /\ tokCall.result.value # Null
  /\ now = metadataCache[tokCall.address].timestamp + MetadataTtl

(***************************************************************************)
(* C37: an absent (null) metadata result is never served from the metadata *)
(* cache: a getTokenMetadata for a mint whose stored result is null, even  *)
(* a fresh one, goes on to fetch the account at the derived address.       *)
(***************************************************************************)
FreshAbsentMetadata(a) ==
  /\ a \in DOMAIN metadataCache
  /\ metadataCache[a].data = Null
  /\ now - metadataCache[a].timestamp <= MetadataTtl
  /\ ~PublicKey_new(a).threw

FetchedAfresh ==
  /\ tokCall'.pc = "awaitMetadataAccount"
  /\ tokCall'.trace = <<"metadataCache.get", "rpc getAccountInfo">>

AbsentRefetchedStep ==
  \A a \in TokAddresses : (MetadataCallStep(a) /\ FreshAbsentMetadata(a)) => FetchedAfresh

C37_AbsentMetadataNeverCached == [][AbsentRefetchedStep]_vars

C37_Witness ==
  /\ tokCall.op = "getTokenMetadata"
  /\ tokCall.pc = "awaitMetadataAccount"
  /\ tokCall.calls = 2
  /\ tokCall.address \in DOMAIN metadataCache
  /\ metadataCache[tokCall.address].data = Null
  /\ metadataCache[tokCall.address].timestamp = now

(***************************************************************************)
(* C32: in decodeMetadata, when the declared length of the name, of the    *)
(* symbol or of the uri reaches past the end of the buffer, the exact      *)
(* placeholder is returned: no field is cut down to the bytes that remain. *)
(***************************************************************************)
NameEnd(data) == MetadataHeaderLen + 4 + U32At(data, MetadataHeaderLen)
SymbolEnd(data) == NameEnd(data) + 4 + U32At(data, NameEnd(data))
UriEnd(data) == SymbolEnd(data) + 4 + U32At(data, SymbolEnd(data))

NameOverflows(data) ==
  /\ MetadataHeaderLen + 4 <= Len(data)
  /\ NameEnd(data) > Len(data)

SymbolOverflows(data) ==
  /\ MetadataHeaderLen + 4 <= Len(data)
  /\ NameEnd(data) + 4 <= Len(data)
  /\ SymbolEnd(data) > Len(data)

UriOverflows(data) ==
  /\ MetadataHeaderLen + 4 <= Len(data)
  /\ NameEnd(data) + 4 <= Len(data)
  /\ SymbolEnd(data) + 4 <= Len(data)
  /\ UriEnd(data) > Len(data)

EndChars == WhiteSpace \cup {0}

RECURSIVE StripStart(_)
StripStart(str) ==
  IF str # <<>> /\ Head(str) \in EndChars THEN StripStart(Tail(str)) ELSE str

RECURSIVE StripEnd(_)
StripEnd(str) ==
  IF str # <<>> /\ str[Len(str)] \in EndChars THEN StripEnd(SubSeq(str, 1, Len(str) - 1))
  ELSE str

EndsStripped(bytes) == StripEnd(StripStart(TextDecoder_decode(bytes)))

WellFormedMetadata(data) ==
  /\ MetadataHeaderLen + 12 <= Len(data)
  /\ NameEnd(data) + 4 <= Len(data)
  /\ SymbolEnd(data) + 4 <= Len(data)
  /\ UriEnd(data) <= Len(data)

C33_FieldsKeptButForTheirEnds ==
  (mdOut.state # "idle" /\ WellFormedMetadata(mdInput)) =>
    /\ mdOut.state = "returned"
    /\ mdOut.value.name =
         EndsStripped(Bytes(mdInput, MetadataHeaderLen + 4, U32At(mdInput, MetadataHeaderLen)))
    /\ mdOut.value.symbol =
         EndsStripped(Bytes(mdInput, NameEnd(mdInput) + 4, U32At(mdInput, NameEnd(mdInput))))
    /\ mdOut.value.uri =
         EndsStripped(Bytes(mdInput, SymbolEnd(mdInput) + 4, U32At(mdInput, SymbolEnd(mdInput))))
    /\ mdOut.value.description = mdOut.value.uri

(***************************************************************************)
(* Several getPoolInfo calls in flight for the same address, in every      *)
(* interleaving of their steps, as time passes.                            *)
(***************************************************************************)
InitRace ==
  /\ now = 0
  /\ RLIdle
  /\ CacheInit
  /\ MetaIdle
  /\ TokInit
  /\ PoolInit
  /\ LayoutIdle
  /\ RatioIdle
  /\ extHeap = <<>> /\ extCache = 0 /\ ext = ExtIdle
  /\ race = RaceIdle
  /\ FtiInit

NextRace ==
  \/ Tick /\ UNCHANGED <<rlVars, cacheVars, mdVars, tokVars, poolVars, layoutVars, ratioVars, extVars, raceVars, ftiVars>>
  \/ \E c \in Racers :
       RaceCall(c) /\ UNCHANGED <<rlVars, cacheVars, mdVars, tokVars, poolVars, layoutVars, ratioVars, extVars, ftiVars>>
  \/ \E c \in Racers, o \in ExtInfoOutcomes :
       RaceFetchResponse(c, o) /\ UNCHANGED <<rlVars, cacheVars, mdVars, tokVars, poolVars, layoutVars, ratioVars, extVars, ftiVars>>

SpecRace == InitRace /\ [][NextRace]_vars

(***************************************************************************)
(* C34: whatever the interleaving of getPoolInfo calls that miss the cache *)
(* for one address, each value returned and the value the pool-info cache  *)
(* holds are PoolInfo values of completed fetches, whole; and the cache    *)
(* holds the value and the time of the set that ran last, also once all    *)
(* the calls have returned.                                                *)
(***************************************************************************)
C34_LastWriteWins ==
  /\ \A c \in Racers :
       race.ret[c].kind = "ok" => race.ret[c].value \in race.fetched
  /\ \A c \in race.missed :
       race.ret[c].kind = "ok" => race.ret[c].value \in ExtPoolInfos
  /\ DOMAIN race.cache \subseteq {POOL_ADDRESS}
  /\ race.cache = IF race.lastSet = Null THEN EmptyMap
                  ELSE Cache_set(EmptyMap, POOL_ADDRESS, race.lastSet.value, race.lastSet.at)

C34_Witness ==
  /\ \A c \in Racers : race.pc[c] = "done"
  /\ \E first, last \in race.missed :
       /\ race.ret[first].kind = "ok"
       /\ race.ret[last].kind = "ok"
       /\ race.ret[first].value # race.ret[last].value
       /\ race.lastSet # Null
       /\ race.lastSet.caller = last
       /\ race.cache[POOL_ADDRESS].data = race.ret[last].value

(***************************************************************************)
(* PoolService.getPoolInfo and getPoolTokenPair for a pool account whose   *)
(* content may differ from one account fetch to the next.                  *)
(***************************************************************************)
SnapshotResponses ==
  {[ok |-> TRUE,
    account |-> [owner |-> KnownKeys[RAYDIUM_V4_PROGRAM_ID_STR].key, data |-> d]] :
     d \in {GoodPoolData, ChangedPoolData}}

NextSnapshot ==
  \/ Tick /\ UNCHANGED <<rlVars, cacheVars, mdVars, tokVars, poolVars, layoutVars, ratioVars, extVars, raceVars, ftiVars>>
  \/ \E op \in {"getPoolInfo", "getPoolTokenPair"} :
       PoolCall(op, POOL_ADDRESS) /\ UNCHANGED <<rlVars, cacheVars, mdVars, tokVars, layoutVars, ratioVars, extVars, raceVars, ftiVars>>
  \/ \E r \in SnapshotResponses :
       PoolInfoAccountResponse(r) /\ UNCHANGED <<rlVars, cacheVars, mdVars, tokVars, layoutVars, ratioVars, extVars, raceVars, ftiVars>>
  \/ \E r \in SnapshotResponses :
       PoolPairAccountResponse(r) /\ UNCHANGED <<rlVars, cacheVars, mdVars, tokVars, layoutVars, ratioVars, extVars, raceVars, ftiVars>>
  \/ PoolTokenLegsResponse /\ UNCHANGED <<rlVars, cacheVars, mdVars, tokVars, layoutVars, ratioVars, extVars, raceVars, ftiVars>>
  \/ \E r \in SnapshotResponses :
       PoolAbiAccountResponse(r) /\ UNCHANGED <<rlVars, cacheVars, mdVars, tokVars, layoutVars, ratioVars, extVars, raceVars, ftiVars>>

SpecSnapshot == InitPool /\ [][NextSnapshot]_vars

(***************************************************************************)
(* C35: in every PoolInfo getPoolInfo returns, baseToken is the token of   *)
(* the mint given as baseTokenAddress and quoteToken the token of the mint *)
(* given as quoteTokenAddress, also when the account changes between two   *)
(* fetches or a token pair is already cached.                              *)
(***************************************************************************)
C35_PoolInfoFromOneSnapshot ==
  (pool.pc = "done" /\ pool.op = "getPoolInfo" /\ pool.result.kind = "ok") =>
    /\ pool.result.value.baseToken.address = pool.result.value.baseTokenAddress
    /\ pool.result.value.quoteToken.address = pool.result.value.quoteTokenAddress

(***************************************************************************)
(* C36: when getPoolInfo fails, none of the three caches of PoolService    *)
(* has gained or changed an entry for the address: no entry for it bears a *)
(* time later than the start of the call.                                  *)
(***************************************************************************)
PoolInfoFailed == pool.pc = "done" /\ pool.op = "getPoolInfo" /\ pool.result.kind = "error"

WrittenSince(c, address, t) == address \in DOMAIN c /\ c[address].timestamp > t

C36_FailedCallWritesNoCache ==
  PoolInfoFailed =>
    /\ ~WrittenSince(poolInfoCache, pool.address, pool.startedAt)
    /\ ~WrittenSince(tokenPairCache, pool.address, pool.startedAt)
    /\ ~WrittenSince(abiCache, pool.address, pool.startedAt)

(***************************************************************************)
(* C38: in the queue limiter, once nothing waits, processQueue stops being *)
(* rescheduled: a timer that fires while the queue is empty, in a step     *)
(* that grants nothing, leaves fewer pending timers than there were.       *)
(***************************************************************************)
RECURSIVE TimersDueBy(_, _)
TimersDueBy(tm, d) == IF d < 0 THEN 0 ELSE tm[d] + TimersDueBy(tm, d - 1)

PendingTimers(tm) == TimersDueBy(tm, RLHorizon + RLInterval)

IdleTimerStep ==
  /\ rlImpl = "queue"
  /\ queue = <<>>
  /\ arrivals = <<>>
  /\ queue' = <<>>
  /\ grantLog' = grantLog
  /\ timers' # timers

C38_IdleLimiterStopsRescheduling ==
  [][IdleTimerStep => PendingTimers(timers') < PendingTimers(timers)]_vars

(***************************************************************************)
(* fetchTokenInfo on its own: calls one after the other, against every     *)
(* answer of getMint and of the switch to a backup endpoint, as time       *)
(* passes.                                                                 *)
(***************************************************************************)
InitFti ==
  /\ now = 0
  /\ RLIdle
  /\ CacheInit
  /\ MetaIdle
  /\ TokInit
  /\ PoolInit
  /\ LayoutIdle
  /\ RatioIdle
  /\ extHeap = <<>> /\ extCache = 0 /\ ext = ExtIdle
  /\ RaceInit
  /\ fti = FtiIdle

NextFti ==
  \/ Tick /\ UNCHANGED <<rlVars, cacheVars, mdVars, tokVars, poolVars, layoutVars, ratioVars, extVars, raceVars, ftiVars>>
  \/ \E a \in {USDC_MINT, INVALID_ADDRESS} : FtiCall(a) /\ UNCHANGED <<rlVars, cacheVars, mdVars, tokVars, poolVars, layoutVars, ratioVars, extVars, raceVars>>
  \/ \E r \in MintResponses, m \in FtiMetadata : FtiMintResponse(r, m) /\ UNCHANGED <<rlVars, cacheVars, mdVars, tokVars, poolVars, layoutVars, ratioVars, extVars, raceVars>>
  \/ FtiDelay /\ UNCHANGED <<rlVars, cacheVars, mdVars, tokVars, poolVars, layoutVars, ratioVars, extVars, raceVars>>
  \/ \E switched \in BOOLEAN : FtiSwitchResponse(switched) /\ UNCHANGED <<rlVars, cacheVars, mdVars, tokVars, poolVars, layoutVars, ratioVars, extVars, raceVars>>

SpecFti == InitFti /\ [][NextFti]_vars

(***************************************************************************)
(* C39: fetchTokenInfo makes at most MAX_RETRIES attempts on the           *)
(* connection it started with, and when the last of them has failed and    *)
(* the switch to a backup endpoint has succeeded, it fetches the mint at   *)
(* least once more, on the new connection, before it reports failure.      *)
(***************************************************************************)
AttemptsOn(connection) ==
  Cardinality({i \in DOMAIN fti.attempts : fti.attempts[i] = connection})

C39_RetriesBoundedThenBackupTried ==
  /\ fti.attempts # <<>> => AttemptsOn(fti.attempts[1]) <= MAX_RETRIES
  /\ (fti.pc = "done" /\ fti.result.kind = "error" /\ fti.switched = "yes") =>
       fti.attempts[Len(fti.attempts)] = fti.connection

====
